---------------------------- MODULE Spec2Model ----------------------------
(***************************************************************************)
(* A model of the ingestion-and-metrics engine of cu-basketball-analytics: *)
(* the XML game loader (modules/data_loader.py), the play-by-play analyzer *)
(* (modules/play_analyzer.py) and the metrics calculator                   *)
(* (modules/metrics_calculator.py).                                        *)
(*                                                                         *)
(* Conventions.                                                            *)
(*  - A Python str is a sequence of one-character strings, so that         *)
(*    upper(), substring tests, split() and int() are computed character   *)
(*    by character.  None is the one-element sequence NoneVal, which no    *)
(*    text equals.                                                         *)
(*  - A Python dict is a sequence of [k, v] entries in insertion order;    *)
(*    assigning to an existing key keeps the key's position.               *)
(*  - An XML element is a record of its attributes (NoneVal when absent)   *)
(*    and of the sequences of its child elements.                          *)
(*  - Floating point values are exact rationals [n, d] in lowest terms.    *)
(***************************************************************************)
EXTENDS Integers, Sequences, FiniteSets, TLC

VARIABLES
  \* GameDataLoader.load_from_uploads / load_all_games
  entry,        \* which loader was called
  directory,    \* self.directory: "unset", "missing" or "present"
  dir_files,    \* the files of the directory
  batch,        \* uploaded_files, or xml_files once globbed and sorted
  ld,           \* the loop: [pc, pos, games, errors]
  \* GameDataLoader._track_lineups
  tl_players,   \* players: the Game's player dict
  tl_count,     \* the number of plays walked so far
  tl_pc,        \* "walk", "done" (returned) or "raised"
  tl,           \* the walk: [H, V, lineups, raised]
  tl_ratings,   \* <<>>, or <<the lineup counts of the game>> once computed
  \* PlayByPlayAnalyzer._detect_runs_in_game and MetricsCalculator._detect_runs
  rd_plays,     \* plays: the event log walked so far
  rd_pc,        \* "walk" or "done" (both functions have returned)
  pa,           \* _detect_runs_in_game: [runs, current_team, current_points, start_idx, raised]
  mr,           \* _detect_runs: [runs, current_run, raised]
  \* PlayByPlayAnalyzer.get_momentum_swings
  an_games,     \* self.games_data
  sw,           \* the loops: [g, p, prev_score_diff, swings], g-th game, p plays done
  sw_pc,        \* "walk" or "done"
  sw_result,    \* the list returned
  \* MetricsCalculator
  mc_pc,            \* "new" (not constructed), "ready" or "calculated"
  games_data,       \* self.games_data
  player_game_stats,\* self.player_game_stats, built by __init__
  profiles,         \* the list calculate_all_player_metrics returned last
  mc_changed,       \* the collection was changed after the construction
  \* _normalize_name applied repeatedly
  nm_in,            \* the name given
  nm_out,           \* the results of the successive applications
  \* a PlayByPlayAnalyzer and a MetricsCalculator over one list of games
  ax_pc,            \* "collect" (the caller builds the list) or "use"
  ax_games,         \* the list of Games both objects refer to
  ax_analyzer,      \* <<>>, or <<[all_plays]>> once constructed
  ax_calculator,    \* <<>>, or <<[player_game_stats]>> once constructed
  ax_out,           \* the last operation called and what it returned
  \* the consistency metrics of one player
  cs_points,        \* the player's points, game by game
  cs_out,           \* <<>>, or <<the consistency metrics>> once computed
  \* GameDataLoader._extract_plays on one document
  ep_root,          \* the parsed document
  ep_out            \* <<>>, or <<the list of events returned>> or "raised"

loaderVars == <<entry, directory, dir_files, batch, ld>>

lineupVars == <<tl_players, tl_count, tl_pc, tl, tl_ratings>>

runVars == <<rd_plays, rd_pc, pa, mr>>

swingVars == <<an_games, sw, sw_pc, sw_result>>

metricVars == <<mc_pc, games_data, player_game_stats, profiles, mc_changed>>

nameVars == <<nm_in, nm_out>>

analysisVars == <<ax_pc, ax_games, ax_analyzer, ax_calculator, ax_out>>

consistencyVars == <<cs_points, cs_out>>

playsVars == <<ep_root, ep_out>>

vars == <<loaderVars, lineupVars, runVars, swingVars, metricVars, nameVars,
   analysisVars, consistencyVars, playsVars>>

notLoaderVars == <<lineupVars, runVars, swingVars, metricVars, nameVars,
   analysisVars, consistencyVars, playsVars>>

notLineupVars == <<loaderVars, runVars, swingVars, metricVars, nameVars,
   analysisVars, consistencyVars, playsVars>>

notRunVars == <<loaderVars, lineupVars, swingVars, metricVars, nameVars,
   analysisVars, consistencyVars, playsVars>>

notSwingVars == <<loaderVars, lineupVars, runVars, metricVars, nameVars,
   analysisVars, consistencyVars, playsVars>>

notNameVars == <<loaderVars, lineupVars, runVars, swingVars, metricVars,
   analysisVars, consistencyVars, playsVars>>

notMetricVars == <<loaderVars, lineupVars, runVars, swingVars, nameVars,
   analysisVars, consistencyVars, playsVars>>

notAnalysisVars ==
  <<loaderVars, lineupVars, runVars, swingVars, metricVars, nameVars, consistencyVars,
    playsVars>>

notConsistencyVars ==
  <<loaderVars, lineupVars, runVars, swingVars, metricVars, nameVars, analysisVars,
    playsVars>>

notPlaysVars ==
  <<loaderVars, lineupVars, runVars, swingVars, metricVars, nameVars, analysisVars,
    consistencyVars>>

(***************************************************************************)
(* Python values                                                           *)
(***************************************************************************)
NoneVal == <<"None">>

\* Python truthiness of an attribute value: None and '' are falsy
Truthy(v) == v # NoneVal /\ v # <<>>

\* a or b
Or2(a, b) == IF Truthy(a) THEN a ELSE b

\* a or b or c
Or3(a, b, c) == Or2(a, Or2(b, c))

LowerChars == <<"a","b","c","d","e","f","g","h","i","j","k","l","m",
                "n","o","p","q","r","s","t","u","v","w","x","y","z">>

UpperChars == <<"A","B","C","D","E","F","G","H","I","J","K","L","M",
                "N","O","P","Q","R","S","T","U","V","W","X","Y","Z">>

UpperChar(c) ==
  IF \E i \in 1..Len(LowerChars) : LowerChars[i] = c
  THEN UpperChars[CHOOSE i \in 1..Len(LowerChars) : LowerChars[i] = c]
  ELSE c

\* str.upper()
Upper(s) == [i \in 1..Len(s) |-> UpperChar(s[i])]

\* sub in s
Contains(sub, s) ==
  \E i \in 0..(Len(s) - Len(sub)) :
     \A j \in 1..Len(sub) : s[i + j] = sub[j]

DigitChars == <<"0","1","2","3","4","5","6","7","8","9">>

IsDigit(c) == \E i \in 1..10 : DigitChars[i] = c

DigitVal(c) == (CHOOSE i \in 1..10 : DigitChars[i] = c) - 1

IsSpace(c) == c \in {" ", "\t", "\n"}

RECURSIVE LStrip(_)
LStrip(s) == IF s # <<>> /\ IsSpace(Head(s)) THEN LStrip(Tail(s)) ELSE s

RECURSIVE RStrip(_)
RStrip(s) ==
  IF s # <<>> /\ IsSpace(s[Len(s)]) THEN RStrip(SubSeq(s, 1, Len(s) - 1)) ELSE s

\* str.strip()
Strip(s) == LStrip(RStrip(s))

RECURSIVE DigitsValue(_)
DigitsValue(s) ==
  IF s = <<>> THEN 0
  ELSE 10 * DigitsValue(SubSeq(s, 1, Len(s) - 1)) + DigitVal(s[Len(s)])

AllDigits(s) == s # <<>> /\ \A i \in 1..Len(s) : IsDigit(s[i])

\* the text int() accepts: optional blanks, an optional sign, digits
IntBody(s) == IF s # <<>> /\ Head(s) \in {"-", "+"} THEN Tail(s) ELSE s

\* int(s) raises ValueError
IntRaises(s) == ~AllDigits(IntBody(Strip(s)))

\* int(s)
IntOf(s) ==
  LET t == Strip(s)
  IN  IF t # <<>> /\ Head(t) = "-" THEN 0 - DigitsValue(IntBody(t))
      ELSE DigitsValue(IntBody(t))

(***************************************************************************)
(* dict, in insertion order                                                *)
(***************************************************************************)
DictKeys(d) == [i \in 1..Len(d) |-> d[i].k]

DictHas(d, key) == \E i \in 1..Len(d) : d[i].k = key

DictGet(d, key) == d[CHOOSE i \in 1..Len(d) : d[i].k = key].v

\* d[key] = val
DictSet(d, key, val) ==
  IF DictHas(d, key)
  THEN [i \in 1..Len(d) |-> IF d[i].k = key THEN [k |-> key, v |-> val] ELSE d[i]]
  ELSE Append(d, [k |-> key, v |-> val])

\* d.get(key, default)
DictGetOr(d, key, default) == IF DictHas(d, key) THEN DictGet(d, key) ELSE default


(***************************************************************************)
(* Numbers.  A coerced attribute value is tagged: an int, a float (the     *)
(* exact rational n/d) or the raw text kept when coercion fails.           *)
(***************************************************************************)
RECURSIVE GCD(_, _)
GCD(a, b) == IF b = 0 THEN a ELSE GCD(b, a % b)

Abs(x) == IF x < 0 THEN 0 - x ELSE x

\* the rational n/d (d # 0) in lowest terms with a positive denominator
Rat(n, d) ==
  LET g == GCD(Abs(n), Abs(d))
      sg == IF d < 0 THEN 0 - 1 ELSE 1
  IN  [n |-> (sg * n) \div g, d |-> (sg * d) \div g]

RatOfInt(n) == [n |-> n, d |-> 1]

RatAdd(a, b) == Rat(a.n * b.d + b.n * a.d, a.d * b.d)

RatLess(a, b) == a.n * b.d < b.n * a.d

IntV(n) == [t |-> "int", n |-> n, d |-> 1, s |-> <<>>]

FloatV(r) == [t |-> "float", n |-> r.n, d |-> r.d, s |-> <<>>]

StrV(s) == [t |-> "str", n |-> 0, d |-> 1, s |-> s]

\* isinstance(value, (int, float))
IsNumber(v) == v.t \in {"int", "float"}

RatOf(v) == [n |-> v.n, d |-> v.d]

\* value == k for an int k (True for the float k.0 as well)
NumEquals(v, k) == IsNumber(v) /\ v.n = k * v.d

RECURSIVE Pow10(_)
Pow10(k) == IF k = 0 THEN 1 ELSE 10 * Pow10(k - 1)

DotIndex(s) == CHOOSE i \in 1..Len(s) : s[i] = "." /\ \A j \in 1..(i - 1) : s[j] # "."

\* the decimal texts float() accepts here: [sign] digits '.' digits, one side
\* possibly empty; exponent forms and inf/nan are outside the inputs drawn
FloatParts(s) ==
  LET t == IntBody(Strip(s))
      i == DotIndex(t)
  IN  [whole |-> SubSeq(t, 1, i - 1), frac |-> SubSeq(t, i + 1, Len(t))]

FloatRaises(s) ==
  LET t == IntBody(Strip(s)) IN
  \/ ~Contains(<<".">>, t)
  \/ LET p == FloatParts(s)
     IN  \/ p.whole = <<>> /\ p.frac = <<>>
         \/ \E c \in {p.whole[i] : i \in 1..Len(p.whole)} : ~IsDigit(c)
         \/ \E c \in {p.frac[i] : i \in 1..Len(p.frac)} : ~IsDigit(c)

\* float(s)
FloatOf(s) ==
  LET p == FloatParts(s)
      t == Strip(s)
      mag == Rat(DigitsValue(p.whole) * Pow10(Len(p.frac)) + DigitsValue(p.frac),
                 Pow10(Len(p.frac)))
  IN  IF t # <<>> /\ Head(t) = "-" THEN Rat(0 - mag.n, mag.d) ELSE mag

\* try: float(value) if '.' in value else int(value)  except: value
Coerce(value) ==
  IF Contains(<<".">>, value)
  THEN IF FloatRaises(value) THEN StrV(value) ELSE FloatV(FloatOf(value))
  ELSE IF IntRaises(value) THEN StrV(value) ELSE IntV(IntOf(value))

\* {key: Coerce(value) for key, value in attrib.items() if key not in skip}
CoerceAttrib(attrib, skip) ==
  LET keep == SelectSeq(attrib, LAMBDA e : e.k \notin skip)
  IN  [i \in 1..Len(keep) |-> [k |-> keep[i].k, v |-> Coerce(keep[i].v)]]

(***************************************************************************)
(* Name normalisation                                                      *)
(***************************************************************************)
\* str.split(): the maximal runs of non-blank characters
RECURSIVE SplitWs(_)
SplitWs(s) ==
  LET t == LStrip(s) IN
  IF t = <<>> THEN <<>>
  ELSE LET n == IF \E i \in 1..Len(t) : IsSpace(t[i])
                THEN (CHOOSE i \in 1..Len(t) :
                        IsSpace(t[i]) /\ \A j \in 1..(i - 1) : ~IsSpace(t[j])) - 1
                ELSE Len(t)
       IN  <<SubSeq(t, 1, n)>> \o SplitWs(SubSeq(t, n + 1, Len(t)))

\* sep.join(parts)
RECURSIVE Join(_, _)
Join(sep, parts) ==
  IF parts = <<>> THEN <<>>
  ELSE IF Len(parts) = 1 THEN parts[1]
  ELSE parts[1] \o sep \o Join(sep, Tail(parts))

\* str.split(c) for a one-character separator
RECURSIVE SplitOn(_, _)
SplitOn(s, c) ==
  IF \E i \in 1..Len(s) : s[i] = c
  THEN LET i == CHOOSE i \in 1..Len(s) : s[i] = c /\ \A j \in 1..(i - 1) : s[j] # c
       IN  <<SubSeq(s, 1, i - 1)>> \o SplitOn(SubSeq(s, i + 1, Len(s)), c)
  ELSE <<s>>

\* a swap that keeps the comma between the two parts
_normalize_name_keepComma(name) ==
  LET collapsed == Join(<<" ">>, SplitWs(name))
      parts == SplitOn(collapsed, ",")
      swapped == IF Contains(<<",">>, collapsed)
                 THEN Strip(parts[2]) \o <<",", " ">> \o Strip(parts[1])
                 ELSE collapsed
  IN  Strip(swapped)

_normalize_name(name) ==
  LET collapsed == Join(<<" ">>, SplitWs(name))
      parts == SplitOn(collapsed, ",")
      swapped == IF Contains(<<",">>, collapsed)
                 THEN Strip(parts[2]) \o <<" ">> \o Strip(parts[1])
                 ELSE collapsed
  IN  Strip(swapped)


(***************************************************************************)
(* The string literals of the source                                       *)
(***************************************************************************)
Lit ==
  [Unknown |-> <<"U","n","k","n","o","w","n">>,
   UnknownVenue |-> <<"U","n","k","n","o","w","n"," ","V","e","n","u","e">>,
   COLORADO |-> <<"C","O","L","O","R","A","D","O">>,
   COL |-> <<"C","O","L">>,
   TEAM |-> <<"T","E","A","M">>,
   F |-> <<"F">>,
   H |-> <<"H">>,
   V |-> <<"V">>,
   W |-> <<"W">>,
   L |-> <<"L">>,
   Home |-> <<"H","o","m","e">>,
   Away |-> <<"A","w","a","y">>,
   SUB |-> <<"S","U","B">>,
   TypeIn |-> <<"I","N">>,
   ENTERS |-> <<"E","N","T","E","R","S">>,
   TypeOut |-> <<"O","U","T">>,
   LEAVES |-> <<"L","E","A","V","E","S">>,
   GOOD |-> <<"G","O","O","D">>,
   MADE |-> <<"M","A","D","E">>,
   PT3 |-> <<"3","P","T">>,
   PTR3 |-> <<"3","P","T","R">>,
   FT |-> <<"F","T">>,
   FREETHROW |-> <<"F","R","E","E"," ","T","H","R","O","W">>,
   One |-> <<"1">>,
   TenMin |-> <<"1","0",":","0","0">>,
   NA |-> <<"N","/","A">>,
   xml |-> <<".","x","m","l">>]

(***************************************************************************)
(* XML elements.  bool(element) is whether it has child elements; find()   *)
(* is the first match in document order, None when there is none (here:    *)
(* the empty sequence of matches).                                         *)
(***************************************************************************)
\* <player name= player= pos= position= uni=> <stats .../> <statsbyprd prd= period= .../>*
PlayerElem(name, player, pos, position, uni, stats, statsbyprd) ==
  [name |-> name, player |-> player, pos |-> pos, position |-> position,
   uni |-> uni, stats |-> stats, statsbyprd |-> statsbyprd]

\* <linescore score=> <lineprd prd= period= score=/>* </linescore>
LinescoreElem(score, lineprds) == [score |-> score, lineprds |-> lineprds]

\* <team vh= id= code= name= teamname=> linescore* totals* player* </team>
TeamElem(vh, id, code, name, teamname, linescore, totals, players) ==
  [vh |-> vh, id |-> id, code |-> code, name |-> name, teamname |-> teamname,
   linescore |-> linescore, totals |-> totals, players |-> players]

\* <play time= clock= vh= team= checkname= player= action= type= hscore= vscore=/>
PlayElem(time, clock, vh, team, checkname, player, action, type, hscore, vscore) ==
  [time |-> time, clock |-> clock, vh |-> vh, team |-> team,
   checkname |-> checkname, player |-> player, action |-> action,
   type |-> type, hscore |-> hscore, vscore |-> vscore]

\* <period number= prd=> play* </period>
PeriodElem(number, prd, plays) == [number |-> number, prd |-> prd, plays |-> plays]

\* <plays> period* play* </plays>   (or <playbyplay>)
PlaysElem(periods, plays) == [periods |-> periods, plays |-> plays]

\* the parsed document: ok is FALSE when lxml's recovering parser yields no root
Document(ok, venue, teams, plays, playbyplay) ==
  [ok |-> ok, venue |-> venue, teams |-> teams, plays |-> plays,
   playbyplay |-> playbyplay]

TeamHasChildren(team) ==
  team.linescore # <<>> \/ team.totals # <<>> \/ team.players # <<>>

PlaysHasChildren(sec) == sec.periods # <<>> \/ sec.plays # <<>>

(***************************************************************************)
(* GameDataLoader                                                          *)
(***************************************************************************)
_extract_date(root) ==
  LET v == root.venue[1]
      date == IF root.venue # <<>> THEN Or2(v.date, v.gametime) ELSE NoneVal
  IN  IF Truthy(date) THEN date
      ELSE IF root.venue # <<>> /\ v.date # NoneVal THEN v.date
      ELSE Lit.Unknown

_extract_venue(root) ==
  IF root.venue # <<>> /\ Truthy(root.venue[1].location)
  THEN root.venue[1].location
  ELSE Lit.UnknownVenue

\* int(attr or 0) raises
IntOr0Raises(attr) == Truthy(attr) /\ IntRaises(attr)

\* int(attr or 0)
IntOr0(attr) == IF Truthy(attr) THEN IntOf(attr) ELSE 0

TeamId(team) == Or3(team.vh, team.id, team.code)

\* the body of the loop of _extract_teams raises on this <team>
TeamRaises(team) ==
  /\ Truthy(TeamId(team))
  /\ team.linescore # <<>>
  /\ \/ IntOr0Raises(team.linescore[1].score)
     \/ \E i \in 1..Len(team.linescore[1].lineprds) :
           IntOr0Raises(team.linescore[1].lineprds[i].score)

\* the entry _extract_teams stores for one <team>
TeamInfo(team) ==
  LET ls == team.linescore[1]
      lp == ls.lineprds
      \* team.find('.//totals/stats') or team.find('.//totals'): a <stats> leaf
      \* is falsy, so the <totals> element itself supplies the attributes
      withStats == SelectSeq(team.totals, LAMBDA t : t.stats # <<>>)
  IN  [id |-> TeamId(team),
       name |-> Or3(team.name, team.teamname, Lit.Unknown),
       score |-> IF team.linescore # <<>> THEN IntOr0(ls.score) ELSE 0,
       quarters |-> IF team.linescore # <<>>
                    THEN [i \in 1..Len(lp) |->
                            [period |-> Or2(lp[i].prd, lp[i].period),
                             score |-> IntOr0(lp[i].score)]]
                    ELSE <<>>,
       totals |-> IF team.totals # <<>>
                  THEN CoerceAttrib(team.totals[1].attrib, {})
                  ELSE <<>>]

RECURSIVE ExtractTeamsFrom(_, _)
ExtractTeamsFrom(elems, teams) ==
  IF elems = <<>> THEN teams
  ELSE IF ~Truthy(TeamId(Head(elems))) THEN ExtractTeamsFrom(Tail(elems), teams)
  ELSE ExtractTeamsFrom(Tail(elems),
                        DictSet(teams, TeamId(Head(elems)), TeamInfo(Head(elems))))

_extract_teams_raises(root) == \E i \in 1..Len(root.teams) : TeamRaises(root.teams[i])

_extract_teams(root) == ExtractTeamsFrom(root.teams, <<>>)

\* _extract_player_stats returns None: no name, or the TEAM pseudo-player
PlayerSkipped(pe) ==
  LET name == Or2(pe.name, pe.player)
  IN  ~Truthy(name) \/ Upper(name) = Lit.TEAM

RECURSIVE QuarterStatsFrom(_, _)
QuarterStatsFrom(elems, acc) ==
  IF elems = <<>> THEN acc
  ELSE LET q == Head(elems)
           period == Or2(q.prd, q.period)
       IN  IF Truthy(period)
           THEN QuarterStatsFrom(Tail(elems),
                   DictSet(acc, period, CoerceAttrib(q.attrib, {"prd", "period"})))
           ELSE QuarterStatsFrom(Tail(elems), acc)

_extract_player_stats(pe, team_id, is_cu) ==
  [name |-> _normalize_name(Or2(pe.name, pe.player)),
   position |-> Or3(pe.pos, pe.position, Lit.F),
   uniform |-> Or2(pe.uni, <<>>),
   team |-> team_id,
   is_cu |-> is_cu,
   stats |-> IF pe.stats # <<>> THEN CoerceAttrib(pe.stats[1], {}) ELSE <<>>,
   quarter_stats |-> QuarterStatsFrom(pe.statsbyprd, <<>>)]

RECURSIVE PlayersOfTeam(_, _, _, _)
PlayersOfTeam(elems, team_id, is_cu, players) ==
  IF elems = <<>> THEN players
  ELSE IF PlayerSkipped(Head(elems))
  THEN PlayersOfTeam(Tail(elems), team_id, is_cu, players)
  ELSE LET pd == _extract_player_stats(Head(elems), team_id, is_cu)
       IN  PlayersOfTeam(Tail(elems), team_id, is_cu, DictSet(players, pd.name, pd))

\* root.find(".//team[@vh='id']") or root.find(".//team[@id='id']"): the <team>
\* elements this yields (none when the result is None)
FindTeam(root, team_id) ==
  LET byVh == SelectSeq(root.teams, LAMBDA t : t.vh = team_id)
      byId == SelectSeq(root.teams, LAMBDA t : t.id = team_id)
  IN  IF byVh # <<>> /\ TeamHasChildren(byVh[1]) THEN <<byVh[1]>>
      ELSE IF byId # <<>> THEN <<byId[1]>>
      ELSE <<>>

RECURSIVE AllPlayersFrom(_, _, _, _)
AllPlayersFrom(root, ids, cu_team_id, players) ==
  IF ids = <<>> THEN players
  ELSE LET team == FindTeam(root, Head(ids))
       IN  IF team = <<>> THEN AllPlayersFrom(root, Tail(ids), cu_team_id, players)
           ELSE AllPlayersFrom(root, Tail(ids), cu_team_id,
                   PlayersOfTeam(team[1].players, Head(ids),
                                 Head(ids) = cu_team_id, players))

_extract_all_players(root, teams, cu_team_id) ==
  AllPlayersFrom(root, DictKeys(teams), cu_team_id, <<>>)

\* int(play_elem.get('hscore') or 0) or the vscore one raises
_parse_play_raises(pe) == IntOr0Raises(pe.hscore) \/ IntOr0Raises(pe.vscore)

\* (the free text and the vendor-specific extra attributes are not carried)
_parse_play(pe, period, play_id) ==
  [id |-> play_id,
   period |-> period,
   time |-> Or3(pe.time, pe.clock, Lit.TenMin),
   team |-> Or2(pe.vh, pe.team),
   player |-> Or2(pe.checkname, pe.player),
   action |-> pe.action,
   type |-> pe.type,
   hscore |-> IntOr0(pe.hscore),
   vscore |-> IntOr0(pe.vscore)]

\* plays_section = root.find('.//plays') or root.find('.//playbyplay')
PlaysSection(root) ==
  IF root.plays # <<>> /\ PlaysHasChildren(root.plays[1]) THEN <<root.plays[1]>>
  ELSE IF root.playbyplay # <<>> THEN <<root.playbyplay[1]>>
  ELSE <<>>

\* the <play> elements under the <period> groups, each with its period label
RECURSIVE PeriodPlays(_)
PeriodPlays(periods) ==
  IF periods = <<>> THEN <<>>
  ELSE LET per == Head(periods)
           num == Or3(per.number, per.prd, Lit.One)
       IN  [i \in 1..Len(per.plays) |-> [elem |-> per.plays[i], period |-> num]]
           \o PeriodPlays(Tail(periods))

\* the (element, period label) pairs _extract_plays hands to _parse_play, in order
PlaysToParse(root) ==
  LET sec == PlaysSection(root)
      grouped == PeriodPlays(sec[1].periods)
  IN  IF sec = <<>> THEN <<>>
      ELSE IF grouped # <<>> THEN grouped
      ELSE [i \in 1..Len(sec[1].plays) |->
              [elem |-> sec[1].plays[i], period |-> Lit.One]]

_extract_plays_raises(root) ==
  \E i \in 1..Len(PlaysToParse(root)) : _parse_play_raises(PlaysToParse(root)[i].elem)

\* a numbering of the events from 1
_extract_plays_fromOne(root) ==
  LET todo == PlaysToParse(root)
  IN  [i \in 1..Len(todo) |-> _parse_play(todo[i].elem, todo[i].period, i)]

_extract_plays(root) ==
  LET todo == PlaysToParse(root)
  IN  [i \in 1..Len(todo) |-> _parse_play(todo[i].elem, todo[i].period, i - 1)]

(***************************************************************************)
(* _track_lineups: a walk over the plays carrying the on-court set of each *)
(* side.  The walk state is [H, V, lineups, raised]; raised records the    *)
(* AttributeError (a play without action or type) or KeyError (a           *)
(* substitution whose side is neither 'H' nor 'V') that ends the walk.     *)
(***************************************************************************)
CuStarters(players) ==
  {players[i].v.name : i \in {j \in 1..Len(players) :
      /\ players[j].v.is_cu
      /\ DictHas(players[j].v.stats, "gs")
      /\ NumEquals(DictGet(players[j].v.stats, "gs"), 1)}}

\* the number of entries of the list cu_starters (one per player record)
CuStarterCount(players) ==
  Cardinality({j \in 1..Len(players) :
      /\ players[j].v.is_cu
      /\ DictHas(players[j].v.stats, "gs")
      /\ NumEquals(DictGet(players[j].v.stats, "gs"), 1)})

TrackStart(players) ==
  [H |-> IF CuStarterCount(players) \in 1..5 THEN CuStarters(players) ELSE {},
   V |-> {},
   lineups |-> <<>>,
   raised |-> FALSE]

\* a snapshot whenever five or more are on court, where the code asks for five
SnapshotDue_atLeast(court) == Cardinality(court) >= 5

\* the snapshot is taken when the side's set has exactly 5 players
SnapshotDue(court) == Cardinality(court) = 5

LineupSnapshot(play, team, court) ==
  [time |-> play.time, period |-> play.period, team |-> team,
   players |-> court,
   score |-> [H |-> play.hscore, V |-> play.vscore]]

\* one iteration of the for loop
TrackStep(st, play) ==
  IF st.raised THEN st
  ELSE IF play.action = NoneVal \/ play.type = NoneVal
  THEN [st EXCEPT !.raised = TRUE]
  ELSE
    LET action == Upper(play.action)
        play_type == Upper(play.type)
        team == play.team
        player == _normalize_name(play.player)
        cur == IF team = Lit.H THEN st.H ELSE st.V
        court == IF Contains(Lit.TypeIn, play_type) \/ Contains(Lit.ENTERS, action)
                 THEN cur \cup {player}
                 ELSE IF Contains(Lit.TypeOut, play_type) \/ Contains(Lit.LEAVES, action)
                 THEN cur \ {player}
                 ELSE cur
        snaps == IF SnapshotDue(court)
                 THEN Append(st.lineups, LineupSnapshot(play, team, court))
                 ELSE st.lineups
    IN  IF ~Contains(Lit.SUB, action) \/ ~Truthy(play.player) THEN st
        ELSE IF team \notin {Lit.H, Lit.V} THEN [st EXCEPT !.raised = TRUE]
        ELSE IF team = Lit.H
        THEN [st EXCEPT !.H = court, !.lineups = snaps]
        ELSE [st EXCEPT !.V = court, !.lineups = snaps]

RECURSIVE TrackFrom(_, _)
TrackFrom(st, plays) ==
  IF plays = <<>> THEN st ELSE TrackFrom(TrackStep(st, Head(plays)), Tail(plays))

_track_lineups_raises(plays, players) == TrackFrom(TrackStart(players), plays).raised

_track_lineups(plays, players) ==
  IF plays = <<>> THEN <<>> ELSE TrackFrom(TrackStart(players), plays).lineups

(***************************************************************************)
(* parse_game_content                                                      *)
(***************************************************************************)
\* filename.replace('.xml', '')
RECURSIVE RemoveAll(_, _)
RemoveAll(s, sub) ==
  IF s = <<>> THEN <<>>
  ELSE IF Len(s) >= Len(sub) /\ SubSeq(s, 1, Len(sub)) = sub
  THEN RemoveAll(SubSeq(s, Len(sub) + 1, Len(s)), sub)
  ELSE <<Head(s)>> \o RemoveAll(Tail(s), sub)

\* 'COLORADO' in team_name or 'COL' in team_name
IsTrackedName(name) ==
  Contains(Lit.COLORADO, Upper(name)) \/ Contains(Lit.COL, Upper(name))

\* the for loop over teams.items() that assigns cu_team and opp_team
RECURSIVE ScanTeams(_, _)
ScanTeams(teams, acc) ==
  IF teams = <<>> THEN acc
  ELSE IF IsTrackedName(Head(teams).v.name)
  THEN ScanTeams(Tail(teams), [acc EXCEPT !.cu_team = Head(teams).k])
  ELSE ScanTeams(Tail(teams), [acc EXCEPT !.opp_team = Head(teams).k])

\* the scan alone, without the default to the first team
ResolveTeams_scanOnly(teams) ==
  ScanTeams(teams, [cu_team |-> NoneVal, opp_team |-> NoneVal])

\* cu_team and opp_team after the scan and the default to the first team
ResolveTeams(teams) ==
  LET scan == ScanTeams(teams, [cu_team |-> NoneVal, opp_team |-> NoneVal])
  IN  IF ~Truthy(scan.cu_team) /\ teams # <<>>
      THEN [cu_team |-> teams[1].k,
            opp_team |-> IF Len(teams) > 1 THEN teams[2].k ELSE NoneVal]
      ELSE scan

\* 'W' if cu_score > opp_score else 'L'
GameResult(cu_score, opp_score) == IF cu_score > opp_score THEN Lit.W ELSE Lit.L

\* parse_game_content raises instead of returning a Game
parse_game_content_raises(root) ==
  \/ ~root.ok
  \/ _extract_teams_raises(root)
  \/ _extract_plays_raises(root)
  \/ LET teams == _extract_teams(root)
         players == _extract_all_players(root, teams, ResolveTeams(teams).cu_team)
     IN  _track_lineups_raises(_extract_plays(root), players)

\* (date_obj, the strptime of the raw date, is not carried)
parse_game_content(root, filename) ==
  LET teams == _extract_teams(root)
      who == ResolveTeams(teams)
      cu_team == who.cu_team
      opp_team == who.opp_team
      cu_score == IF Truthy(cu_team) /\ DictHas(teams, cu_team)
                  THEN DictGet(teams, cu_team).score ELSE 0
      hasOpp == Truthy(opp_team) /\ DictHas(teams, opp_team)
      opp_score == IF hasOpp THEN DictGet(teams, opp_team).score ELSE 0
      players == _extract_all_players(root, teams, cu_team)
      plays == _extract_plays(root)
  IN  [filename |-> filename,
       file_id |-> RemoveAll(filename, Lit.xml),
       date |-> _extract_date(root),
       venue |-> _extract_venue(root),
       teams |-> teams,
       players |-> players,
       plays |-> plays,
       lineups |-> _track_lineups(plays, players),
       cu_score |-> cu_score,
       opp_score |-> opp_score,
       opponent |-> IF hasOpp THEN DictGet(teams, opp_team).name ELSE Lit.Unknown,
       result |-> GameResult(cu_score, opp_score),
       home_away |-> IF cu_team = Lit.V THEN Lit.Away ELSE Lit.Home]

(***************************************************************************)
(* load_from_uploads and load_all_games as a loop over the batch.  The     *)
(* loop state is [pc, pos, games, errors]: pos files are done, games is    *)
(* the list being returned, errors the file names printed by the except    *)
(* branch.                                                                 *)
(***************************************************************************)
\* the alphabet in code point order, for sorted()
CharOrder == <<".">> \o DigitChars \o UpperChars \o LowerChars

CharRank(c) == CHOOSE i \in 1..Len(CharOrder) : CharOrder[i] = c

RECURSIVE StrLess(_, _)
StrLess(a, b) ==
  IF b = <<>> THEN FALSE
  ELSE IF a = <<>> THEN TRUE
  ELSE IF Head(a) = Head(b) THEN StrLess(Tail(a), Tail(b))
  ELSE CharRank(Head(a)) < CharRank(Head(b))

EndsWith(s, suffix) ==
  Len(s) >= Len(suffix) /\ SubSeq(s, Len(s) - Len(suffix) + 1, Len(s)) = suffix

\* sorted(path.glob("*.xml")) over a directory, a set of files with distinct names
RECURSIVE SortedFiles(_)
SortedFiles(files) ==
  IF files = {} THEN <<>>
  ELSE LET first == CHOOSE f \in files : \A g \in files \ {f} : StrLess(f.name, g.name)
       IN  <<first>> \o SortedFiles(files \ {first})

GlobXml(dir) == SortedFiles({f \in dir : EndsWith(f.name, Lit.xml)})

\* an except branch that ends the loop, where the code continues
OnParseError_abort(st, file) ==
  [st EXCEPT !.errors = Append(st.errors, file.name), !.pc = "done"]

\* the except branch: print the error, continue with the next file
OnParseError(st, file) ==
  [st EXCEPT !.errors = Append(st.errors, file.name), !.pos = st.pos + 1]

\* the try body: parse, append the Game (a non-empty dict, so always truthy)
OnParsed(st, file) ==
  [st EXCEPT !.games = Append(st.games, parse_game_content(file.root, file.name)),
             !.pos = st.pos + 1]

\* one iteration of the for loop of either loader
LoadOne(st, file) ==
  IF parse_game_content_raises(file.root) THEN OnParseError(st, file)
  ELSE OnParsed(st, file)

(***************************************************************************)
(* The documents drawn as inputs                                           *)
(***************************************************************************)
Txt ==
  [Colorado |-> <<"C","o","l","o","r","a","d","o">>,
   Columbia |-> <<"c","o","l","u","m","b","i","a">>,
   Utah |-> <<"U","t","a","h">>,
   Iowa |-> <<"I","o","w","a">>,
   s60 |-> <<"6","0">>,
   s65 |-> <<"6","5">>,
   s70 |-> <<"7","0">>,
   sBad |-> <<"7","x">>,
   s0 |-> <<"0">>,
   s2 |-> <<"2">>,
   s1 |-> <<"1">>,
   Sanders |-> <<"S","a","n","d","e","r","s",","," ","K","e","n","n","e","d","y">>,
   Teder |-> <<"T","e","d","e","r",","," "," ","J","o","h","a","n","n","a">>,
   Beh |-> <<"I","s","i","s"," ","B","e","h">>,
   Good |-> <<"G","O","O","D">>,
   Sub |-> <<"S","U","B">>,
   Jumper |-> <<"J","U","M","P","E","R">>,
   In |-> <<"I","N">>,
   Out |-> <<"O","U","T">>,
   t9 |-> <<"0","9",":","0","0">>,
   t8 |-> <<"0","8",":","0","0">>,
   t7 |-> <<"0","7",":","0","0">>,
   s4 |-> <<"4">>, s5 |-> <<"5">>, s9 |-> <<"9">>, s10 |-> <<"1","0">>, s12 |-> <<"1","2">>, s14 |-> <<"1","4">>,
   s15 |-> <<"1","5">>, s20 |-> <<"2","0">>, s24 |-> <<"2","4">>,
   G |-> <<"G">>, s8 |-> <<"8">>,
   s68 |-> <<"6","8">>, s30 |-> <<"3","0">>, s40 |-> <<"4","0">>,
   Layup |-> <<"L","A","Y","U","P">>,
   Three |-> <<"3","P","T","R">>,
   FreeThrow |-> <<"F","T">>,
   Miss |-> <<"M","I","S","S">>,
   fa |-> <<"a",".","x","m","l">>,
   fb |-> <<"b",".","x","m","l">>,
   fc |-> <<"c",".","x","m","l">>,
   fd |-> <<"d",".","x","m","l">>,
   fe |-> <<"e",".","x","m","l">>,
   ff |-> <<"f",".","x","m","l">>,
   fg |-> <<"g",".","x","m","l">>,
   fh |-> <<"h",".","x","m","l">>,
   fi |-> <<"i",".","x","m","l">>,
   fj |-> <<"j",".","x","m","l">>,
   fk |-> <<"k",".","t","x","t">>,
   fl |-> <<"l",".","x","m","l">>,
   fm |-> <<"m",".","x","m","l">>]

MkPlayer(name, gs, tp) ==
  PlayerElem(name, NoneVal, NoneVal, NoneVal, NoneVal,
             <<(<<[k |-> "gs", v |-> gs], [k |-> "tp", v |-> tp]>>)>>, <<>>)

MkTeam(vh, name, score, players) ==
  TeamElem(vh, NoneVal, NoneVal, name, NoneVal,
           <<LinescoreElem(score, <<>>)>>, <<>>, players)

MkPlay(vh, player, action, type, hscore, vscore) ==
  PlayElem(NoneVal, NoneVal, vh, NoneVal, player, NoneVal, action, type, hscore, vscore)

MkDoc(teams, plays) ==
  Document(TRUE, <<>>, teams,
           IF plays = <<>> THEN <<>> ELSE <<PlaysElem(<<>>, plays)>>, <<>>)

SomePlayers ==
  <<MkPlayer(Txt.Sanders, Txt.s1, Txt.s2), MkPlayer(Txt.Teder, Txt.s0, Txt.s0)>>

SomePlays ==
  <<MkPlay(Lit.H, Txt.Sanders, Txt.Good, Txt.Jumper, Txt.s2, Txt.s0),
    MkPlay(Lit.H, Txt.Teder, Txt.Sub, Txt.In, Txt.s2, Txt.s0)>>

\* a document of two teams, the visitors first
TwoTeams(vname, vscore, hname, hscore) ==
  MkDoc(<<MkTeam(Lit.V, vname, vscore, <<>>),
          MkTeam(Lit.H, hname, hscore, SomePlayers)>>, SomePlays)

DocWin == TwoTeams(Txt.Utah, Txt.s60, Txt.Colorado, Txt.s70)

DocLoss == TwoTeams(Txt.Colorado, Txt.s60, Txt.Utah, Txt.s70)

DocTie == TwoTeams(Txt.Utah, Txt.s65, Txt.Colorado, Txt.s65)

DocBothTracked == TwoTeams(Txt.Colorado, Txt.s70, Txt.Columbia, Txt.s65)

DocNoneTracked == TwoTeams(Txt.Utah, Txt.s70, Txt.Iowa, Txt.s60)

DocOneTeam == MkDoc(<<MkTeam(Lit.H, Txt.Utah, Txt.s60, SomePlayers)>>, <<>>)

\* well-formed XML whose root holds no venue, team or plays element
DocUnrecognized == Document(TRUE, <<>>, <<>>, <<>>, <<>>)

\* content from which the recovering parser builds no root
DocNoRoot == Document(FALSE, <<>>, <<>>, <<>>, <<>>)

DocBadScore == TwoTeams(Txt.Utah, Txt.sBad, Txt.Colorado, Txt.s70)

DocNoAction ==
  MkDoc(<<MkTeam(Lit.V, Txt.Utah, Txt.s60, <<>>),
          MkTeam(Lit.H, Txt.Colorado, Txt.s70, <<>>)>>,
        <<MkPlay(Lit.H, Txt.Sanders, NoneVal, Txt.Jumper, Txt.s2, Txt.s0)>>)

\* the tracked team first, and a player of the same name on the other team
DocSameName ==
  MkDoc(<<MkTeam(Lit.V, Txt.Colorado, Txt.s60, <<MkPlayer(Txt.Sanders, Txt.s1, Txt.s2)>>),
          MkTeam(Lit.H, Txt.Utah, Txt.s70, <<MkPlayer(Txt.Sanders, Txt.s0, Txt.s0)>>)>>,
        <<>>)

\* the teams carry their identifier in the code attribute
DocCodeTeam ==
  MkDoc(<<TeamElem(NoneVal, NoneVal, Lit.V, Txt.Utah, NoneVal,
                   <<LinescoreElem(Txt.s60, <<>>)>>, <<>>, <<>>),
          TeamElem(NoneVal, NoneVal, Lit.H, Txt.Colorado, NoneVal,
                   <<LinescoreElem(Txt.s70, <<>>)>>, <<>>, SomePlayers)>>, <<>>)

File(name, root) == [name |-> name, root |-> root]

FilePool ==
  {File(Txt.fa, DocWin), File(Txt.fb, DocLoss), File(Txt.fc, DocTie),
   File(Txt.fd, DocBothTracked), File(Txt.fe, DocNoneTracked),
   File(Txt.ff, DocOneTeam), File(Txt.fg, DocUnrecognized),
   File(Txt.fh, DocNoRoot), File(Txt.fi, DocBadScore), File(Txt.fj, DocNoAction),
   File(Txt.fk, DocWin), File(Txt.fl, DocSameName), File(Txt.fm, DocCodeTeam)}

MaxBatch == 2

Batches == UNION {[1..n -> FilePool] : n \in 0..MaxBatch}

Directories == {d \in SUBSET FilePool : Cardinality(d) <= MaxBatch}

(***************************************************************************)
(* Specification of the loaders                                            *)
(***************************************************************************)
LoopStart == [pc |-> "loop", pos |-> 0, games |-> <<>>, errors |-> <<>>]

LoaderIdle ==
  /\ entry = "none" /\ directory = "unset" /\ dir_files = {} /\ batch = <<>>
  /\ ld = [LoopStart EXCEPT !.pc = "done"]

LoaderInit ==
  \/ /\ entry = "load_from_uploads"
     /\ directory = "unset" /\ dir_files = {}
     /\ batch \in Batches
     /\ ld = LoopStart
  \/ /\ entry = "load_all_games"
     /\ \/ directory \in {"unset", "missing"} /\ dir_files = {}
        \/ directory = "present" /\ dir_files \in Directories
     /\ batch = <<>>
     /\ ld = [LoopStart EXCEPT !.pc = "start"]

\* load_all_games up to the loop: no directory returns [], a missing one raises
\* ValueError, otherwise the *.xml batch are globbed and sorted
LoadAllGamesStart ==
  /\ entry = "load_all_games" /\ ld.pc = "start"
  /\ \/ directory = "unset" /\ ld' = [ld EXCEPT !.pc = "done"] /\ batch' = batch
     \/ directory = "missing" /\ ld' = [ld EXCEPT !.pc = "raised"] /\ batch' = batch
     \/ directory = "present" /\ batch' = GlobXml(dir_files)
                              /\ ld' = [ld EXCEPT !.pc = "loop"]
  /\ UNCHANGED <<entry, directory, dir_files, notLoaderVars>>

\* one iteration of the for loop
LoadStep ==
  /\ ld.pc = "loop" /\ ld.pos < Len(batch)
  /\ ld' = LoadOne(ld, batch[ld.pos + 1])
  /\ UNCHANGED <<entry, directory, dir_files, batch, notLoaderVars>>

\* return games
LoadReturn ==
  /\ ld.pc = "loop" /\ ld.pos = Len(batch)
  /\ ld' = [ld EXCEPT !.pc = "done"]
  /\ UNCHANGED <<entry, directory, dir_files, batch, notLoaderVars>>

LoaderNext == LoadAllGamesStart \/ LoadStep \/ LoadReturn

(***************************************************************************)
(* Specification of the lineup walk: the players come from a parsed        *)
(* document with a chosen number of declared starters, the plays are drawn *)
(* one by one.                                                             *)
(***************************************************************************)
RosterNames ==
  <<<<"S","a","n","d","e","r","s",","," ","K","e","n","n","e","d","y">>,
    <<"T","e","d","e","r",","," "," ","J","o","h","a","n","n","a">>,
    <<"J","a","d","e"," ","M","a","s","o","g","a","y","o">>,
    <<"G","a","r","z","o","n",","," ","L","i","o","r">>,
    <<"D","i","e","w",","," ","N","y","a","m","e","r">>,
    <<"B","e","h",","," ","I","s","i","s">>>>

\* the tracked team's <player> records, the first k of them declared starters;
\* the tracked team is the home or the visiting side
RosterElems(k) ==
  [i \in 1..Len(RosterNames) |->
     MkPlayer(RosterNames[i], IF i <= k THEN Txt.s1 ELSE Txt.s0, Txt.s0)]

RosterPlayers(k, side) ==
  LET root == MkDoc(<<MkTeam(IF side = Lit.H THEN Lit.V ELSE Lit.H,
                             Txt.Utah, Txt.s60, <<>>),
                      MkTeam(side, Txt.Colorado, Txt.s70, RosterElems(k))>>, <<>>)
      teams == _extract_teams(root)
  IN  _extract_all_players(root, teams, ResolveTeams(teams).cu_team)

StarterCounts == {0, 4, 5, 6}

SubPlay(vh, name, type) == MkPlay(vh, name, Txt.Sub, type, Txt.s2, Txt.s0)

LineupPlayPool ==
  {SubPlay(Lit.H, RosterNames[6], Txt.In), SubPlay(Lit.H, RosterNames[1], Txt.Out),
   SubPlay(Lit.H, RosterNames[2], Txt.Sub),
   MkPlay(Lit.H, RosterNames[1], Txt.Good, Txt.Jumper, Txt.s2, Txt.s0),
   SubPlay(Txt.Utah, RosterNames[1], Txt.In),
   SubPlay(Lit.H, RosterNames[1], NoneVal)}
  \cup {SubPlay(Lit.V, RosterNames[i], Txt.In) : i \in 1..5}

MaxPlays == 6

LineupIdle ==
  /\ tl_players = <<>> /\ tl_count = 0 /\ tl_pc = "done"
  /\ tl = TrackStart(<<>>) /\ tl_ratings = <<>>

LineupInit ==
  /\ \E k \in StarterCounts, side \in {Lit.H, Lit.V} :
        tl_players = RosterPlayers(k, side)
  /\ tl_count = 0
  /\ tl_pc = "walk"
  /\ tl = TrackStart(tl_players)
  /\ tl_ratings = <<>>

\* the loop body on the next play of the log
TrackPlay ==
  /\ tl_pc = "walk" /\ tl_count < MaxPlays
  /\ \E pe \in LineupPlayPool :
        LET st == TrackStep(tl, _parse_play(pe, Lit.One, tl_count))
        IN  /\ tl' = st
            /\ tl_pc' = IF st.raised THEN "raised" ELSE "walk"
  /\ tl_count' = tl_count + 1
  /\ UNCHANGED <<tl_players, tl_ratings, notLineupVars>>

\* the log ends: return lineups
TrackReturn ==
  /\ tl_pc = "walk"
  /\ tl_pc' = "done"
  /\ UNCHANGED <<tl_players, tl_count, tl, tl_ratings, notLineupVars>>

(***************************************************************************)
(* Run detection.  Both detectors are a walk over the plays; idx is the    *)
(* 0-based position of the play.  raised records the AttributeError of     *)
(* play.get('action', '').upper() on a play whose action is None.          *)
(***************************************************************************)
\* str(value): 'None' for None
StrOf(v) == IF v = NoneVal THEN <<"N","o","n","e">> ELSE v

\* 'GOOD' in action or 'MADE' in action
IsMadeBasket(play) ==
  Contains(Lit.GOOD, Upper(play.action)) \/ Contains(Lit.MADE, Upper(play.action))

_get_points_for_play(play) ==
  LET type_str == Upper(StrOf(play.type))
      action == Upper(StrOf(play.action))
  IN  IF Contains(Lit.PT3, type_str) \/ Contains(Lit.PTR3, type_str) THEN 3
      ELSE IF Contains(Lit.FT, type_str) \/ Contains(Lit.FREETHROW, action) THEN 1
      ELSE 2

PaStart ==
  [runs |-> <<>>, current_team |-> NoneVal, current_points |-> 0, start_idx |-> 0,
   raised |-> FALSE]

\* a closing step that records every streak, without the code's threshold
PaStep_noThreshold(st, idx, play) ==
  IF st.raised THEN st
  ELSE IF play.action = NoneVal THEN [st EXCEPT !.raised = TRUE]
  ELSE IF ~IsMadeBasket(play) THEN st
  ELSE IF play.team = st.current_team
  THEN [st EXCEPT !.current_points = st.current_points + _get_points_for_play(play)]
  ELSE [st EXCEPT
          !.runs = Append(st.runs, [team |-> st.current_team,
                                    points |-> st.current_points,
                                    start |-> st.start_idx,
                                    end |-> idx - 1]),
          !.current_team = play.team,
          !.current_points = _get_points_for_play(play),
          !.start_idx = idx]

\* one iteration of the loop of _detect_runs_in_game
PaStep(st, idx, play) ==
  IF st.raised THEN st
  ELSE IF play.action = NoneVal THEN [st EXCEPT !.raised = TRUE]
  ELSE IF ~IsMadeBasket(play) THEN st
  ELSE IF play.team = st.current_team
  THEN [st EXCEPT !.current_points = st.current_points + _get_points_for_play(play)]
  ELSE [st EXCEPT
          !.runs = IF st.current_points >= 6
                   THEN Append(st.runs, [team |-> st.current_team,
                                         points |-> st.current_points,
                                         start |-> st.start_idx,
                                         end |-> idx - 1])
                   ELSE st.runs,
          !.current_team = play.team,
          !.current_points = _get_points_for_play(play),
          !.start_idx = idx]

RECURSIVE PaWalk(_, _, _)
PaWalk(st, idx, plays) ==
  IF plays = <<>> THEN st
  ELSE PaWalk(PaStep(st, idx, Head(plays)), idx + 1, Tail(plays))

_detect_runs_in_game(plays) == PaWalk(PaStart, 0, plays).runs

MrStart ==
  [runs |-> <<>>,
   current_run |-> [team |-> NoneVal, points |-> 0, start |-> 0, end |-> 0],
   raised |-> FALSE]

\* one iteration of the loop of _detect_runs
MrStep(st, idx, play) ==
  IF st.raised THEN st
  ELSE IF play.action = NoneVal THEN [st EXCEPT !.raised = TRUE]
  ELSE IF ~IsMadeBasket(play) THEN st
  ELSE IF play.team = st.current_run.team
  THEN [st EXCEPT !.current_run.points = st.current_run.points + 2,
                  !.current_run.end = idx]
  ELSE [st EXCEPT
          !.runs = IF st.current_run.points >= 6
                   THEN Append(st.runs, st.current_run) ELSE st.runs,
          !.current_run = [team |-> play.team, points |-> 2,
                           start |-> idx, end |-> idx]]

\* after the loop: the open streak is recorded too when it has reached 6
MrFlush(st) ==
  IF st.raised THEN st
  ELSE [st EXCEPT !.runs = IF st.current_run.points >= 6
                           THEN Append(st.runs, st.current_run) ELSE st.runs]

RECURSIVE MrWalk(_, _, _)
MrWalk(st, idx, plays) ==
  IF plays = <<>> THEN st
  ELSE MrWalk(MrStep(st, idx, Head(plays)), idx + 1, Tail(plays))

_detect_runs(plays) == MrFlush(MrWalk(MrStart, 0, plays)).runs

(***************************************************************************)
(* sorted(..., reverse=True)[:20]                                          *)
(***************************************************************************)
\* insert e behind the entries whose key is at least e's: the sort is stable
RECURSIVE InsertDesc(_, _)
InsertDesc(e, sorted) ==
  IF sorted = <<>> THEN <<e>>
  ELSE IF Head(sorted).key >= e.key THEN <<Head(sorted)>> \o InsertDesc(e, Tail(sorted))
  ELSE <<e>> \o sorted

\* sorted(entries, key=..., reverse=True) of [key, val] entries
RECURSIVE SortedDesc(_)
SortedDesc(entries) ==
  IF entries = <<>> THEN <<>>
  ELSE InsertDesc(entries[Len(entries)], SortedDesc(SubSeq(entries, 1, Len(entries) - 1)))

TopN == 20

\* s[:n]
Take(s, n) == SubSeq(s, 1, IF Len(s) < n THEN Len(s) ELSE n)

(***************************************************************************)
(* MetricsCalculator._calculate_momentum_runs                              *)
(***************************************************************************)
\* the runs of one game, each with the game's file name and opponent
RunsOfGame(game) ==
  LET runs == _detect_runs(game.plays)
  IN  [i \in 1..Len(runs) |->
         [team |-> runs[i].team, points |-> runs[i].points,
          start |-> runs[i].start, end |-> runs[i].end,
          game_id |-> game.filename, opponent |-> game.opponent]]

RECURSIVE AllRuns(_)
AllRuns(games) ==
  IF games = <<>> THEN <<>>
  ELSE RunsOfGame(Head(games)) \o AllRuns(Tail(games))

\* the sort key is x.get('length', 0), and no run has a 'length' entry
_calculate_momentum_runs(games) ==
  LET all_runs == AllRuns(games)
      keyed == [i \in 1..Len(all_runs) |-> [key |-> 0, val |-> all_runs[i]]]
      sorted == SortedDesc(keyed)
  IN  Take([i \in 1..Len(sorted) |-> sorted[i].val], TopN)

(***************************************************************************)
(* Specification of run detection: the plays are drawn one by one and both *)
(* detectors walk the same log.                                            *)
(***************************************************************************)
Basket(vh, type) == MkPlay(vh, Txt.Sanders, Txt.Good, type, Txt.s0, Txt.s0)

RunPlayPool ==
  {Basket(Lit.H, Txt.Layup), Basket(Lit.H, Txt.Three), Basket(Lit.H, Txt.FreeThrow),
   Basket(Lit.V, Txt.Layup),
   MkPlay(Lit.V, Txt.Sanders, Txt.Miss, Txt.Jumper, Txt.s0, Txt.s0)}

MaxRunPlays == 6

RunsIdle == rd_plays = <<>> /\ rd_pc = "done" /\ pa = PaStart /\ mr = MrStart

RunsInit == rd_plays = <<>> /\ rd_pc = "walk" /\ pa = PaStart /\ mr = MrStart

\* both loops take the next play of the log
RunsPlay ==
  /\ rd_pc = "walk" /\ Len(rd_plays) < MaxRunPlays
  /\ \E pe \in RunPlayPool :
        LET play == _parse_play(pe, Lit.One, Len(rd_plays))
        IN  /\ rd_plays' = Append(rd_plays, play)
            /\ pa' = PaStep(pa, Len(rd_plays), play)
            /\ mr' = MrStep(mr, Len(rd_plays), play)
  /\ UNCHANGED <<rd_pc, notRunVars>>

\* the log ends: _detect_runs_in_game returns runs, _detect_runs flushes and returns
RunsReturn ==
  /\ rd_pc = "walk"
  /\ rd_pc' = "done"
  /\ mr' = MrFlush(mr)
  /\ UNCHANGED <<rd_plays, pa, notRunVars>>

RunsNext == RunsPlay \/ RunsReturn

(***************************************************************************)
(* PlayByPlayAnalyzer.get_momentum_swings                                  *)
(***************************************************************************)
SwingThreshold == 10

TopSwings == 20

\* a strict comparison, where the code compares with >=
IsSwing_strict(diff, prev_score_diff) == Abs(diff - prev_score_diff) > SwingThreshold

\* abs(diff - prev_score_diff) >= 10
IsSwing(diff, prev_score_diff) == Abs(diff - prev_score_diff) >= SwingThreshold

\* the body of the inner loop, on one play of game
SwingStep(st, game, play) ==
  LET diff == play.hscore - play.vscore
  IN  [st EXCEPT
         !.swings = IF IsSwing(diff, st.prev_score_diff)
                    THEN Append(st.swings,
                                [game |-> game.filename, time |-> play.time,
                                 period |-> play.period,
                                 swing |-> Abs(diff - st.prev_score_diff)])
                    ELSE st.swings,
         !.prev_score_diff = diff,
         !.p = st.p + 1]

\* sorted(swings, key=lambda x: x['swing'], reverse=True)[:20]
TopSwingsOf(swings) ==
  LET keyed == [i \in 1..Len(swings) |-> [key |-> swings[i].swing, val |-> swings[i]]]
      sorted == SortedDesc(keyed)
  IN  Take([i \in 1..Len(sorted) |-> sorted[i].val], TopSwings)

RECURSIVE SwingWalkPlays(_, _, _)
SwingWalkPlays(st, game, plays) ==
  IF plays = <<>> THEN st
  ELSE SwingWalkPlays(SwingStep(st, game, Head(plays)), game, Tail(plays))

RECURSIVE SwingWalkGames(_, _)
SwingWalkGames(st, games) ==
  IF games = <<>> THEN st
  ELSE SwingWalkGames(
         SwingWalkPlays([st EXCEPT !.prev_score_diff = 0, !.p = 0],
                        Head(games), Head(games).plays),
         Tail(games))

SwingStart == [g |-> 1, p |-> 0, prev_score_diff |-> 0, swings |-> <<>>]

get_momentum_swings(games) ==
  TopSwingsOf(SwingWalkGames(SwingStart, games).swings)

(***************************************************************************)
(* Specification of get_momentum_swings over a collection of parsed games, *)
(* in file name order as load_all_games returns them.                      *)
(***************************************************************************)
ScorePlay(time, hscore, vscore) ==
  PlayElem(time, NoneVal, Lit.H, NoneVal, Txt.Sanders, NoneVal, Txt.Good, Txt.Jumper,
           hscore, vscore)

\* the running differential goes 0, 4, 14
LogClaim == <<ScorePlay(Txt.t9, Txt.s4, Txt.s0), ScorePlay(Txt.t8, Txt.s14, Txt.s0)>>

\* 10, -2, 12: three swings, of 10, 12 and 14
LogThree ==
  <<ScorePlay(Txt.t9, Txt.s10, Txt.s0), ScorePlay(Txt.t8, Txt.s10, Txt.s12),
    ScorePlay(Txt.t7, Txt.s24, Txt.s12)>>

\* 2, -7, -4: no move reaches 10
LogQuiet ==
  <<ScorePlay(Txt.t9, Txt.s2, Txt.s0), ScorePlay(Txt.t8, Txt.s2, Txt.s9),
    ScorePlay(Txt.t7, Txt.s5, Txt.s9)>>

\* -15, 5: swings of 15 and 20
LogBig == <<ScorePlay(Txt.t9, Txt.s0, Txt.s15), ScorePlay(Txt.t8, Txt.s20, Txt.s15)>>

SwingLogs == <<LogClaim, LogThree, LogQuiet, LogBig>>

GameNames ==
  <<Txt.fa, Txt.fb, Txt.fc, Txt.fd, Txt.fe, Txt.ff, Txt.fg, Txt.fh, Txt.fi, Txt.fj>>

SwingGame(log, name) ==
  parse_game_content(
    MkDoc(<<MkTeam(Lit.V, Txt.Utah, Txt.s60, <<>>),
            MkTeam(Lit.H, Txt.Colorado, Txt.s70, <<>>)>>, log), name)

MaxSwingGames == 7

\* how many games of each log the collection holds
SwingCounts ==
  {c \in [1..Len(SwingLogs) -> 0..MaxSwingGames] :
      c[1] + c[2] + c[3] + c[4] <= MaxSwingGames}

\* the log of the k-th game of the collection with counts c
RECURSIVE LogAt(_, _, _)
LogAt(c, k, i) == IF k <= c[i] THEN SwingLogs[i] ELSE LogAt(c, k - c[i], i + 1)

SwingCollection(c) ==
  [k \in 1..(c[1] + c[2] + c[3] + c[4]) |-> SwingGame(LogAt(c, k, 1), GameNames[k])]

SwingsIdle ==
  /\ an_games = <<>> /\ sw = SwingStart /\ sw_pc = "done" /\ sw_result = <<>>

SwingsInit ==
  /\ \E c \in SwingCounts : an_games = SwingCollection(c)
  /\ sw = SwingStart /\ sw_pc = "walk" /\ sw_result = <<>>

\* the inner loop takes the next play of the current game
SwingPlay ==
  /\ sw_pc = "walk" /\ sw.g <= Len(an_games)
  /\ sw.p < Len(an_games[sw.g].plays)
  /\ sw' = SwingStep(sw, an_games[sw.g], an_games[sw.g].plays[sw.p + 1])
  /\ UNCHANGED <<an_games, sw_pc, sw_result, notSwingVars>>

\* the outer loop moves to the next game: prev_score_diff = 0
SwingNextGame ==
  /\ sw_pc = "walk" /\ sw.g <= Len(an_games)
  /\ sw.p = Len(an_games[sw.g].plays)
  /\ sw' = [sw EXCEPT !.g = sw.g + 1, !.p = 0, !.prev_score_diff = 0]
  /\ UNCHANGED <<an_games, sw_pc, sw_result, notSwingVars>>

\* return the swings sorted by magnitude, the first 20
SwingReturn ==
  /\ sw_pc = "walk" /\ sw.g > Len(an_games)
  /\ sw_result' = TopSwingsOf(sw.swings)
  /\ sw_pc' = "done"
  /\ UNCHANGED <<an_games, sw, notSwingVars>>

SwingsNext == SwingPlay \/ SwingNextGame \/ SwingReturn

(***************************************************************************)
(* MetricsCalculator: player profiles.  Of the metrics of                  *)
(* _calculate_player_metrics the model carries GP, MIN, MPG, PPG, FG%,     *)
(* 3P%, FT%, eFG%, the quarter metrics, the Fatigue Score, the consistency *)
(* metrics, the close-game metrics, the opponent splits and Best/Worst     *)
(* Matchup; a float is the exact rational, a square root its value rounded *)
(* down to a multiple of 1/SqrtScale of the unit of its argument.          *)
(***************************************************************************)
RatMul(a, b) == Rat(a.n * b.n, a.d * b.d)

\* a / b, b # 0
RatDiv(a, b) == Rat(a.n * b.d, a.d * b.n)

Zero == RatOfInt(0)

RECURSIVE AggregateGame(_, _, _)
AggregateGame(game, entries, acc) ==
  IF entries = <<>> THEN acc
  ELSE LET name == Head(entries).k
           pd == Head(entries).v
           line == [game_id |-> game.filename, date |-> game.date,
                    opponent |-> game.opponent, result |-> game.result,
                    stats |-> pd.stats, quarter_stats |-> pd.quarter_stats]
       IN  IF pd.is_cu
           THEN AggregateGame(game, Tail(entries),
                              DictSet(acc, name, Append(DictGetOr(acc, name, <<>>), line)))
           ELSE AggregateGame(game, Tail(entries), acc)

RECURSIVE AggregateGames(_, _)
AggregateGames(games, acc) ==
  IF games = <<>> THEN acc
  ELSE AggregateGames(Tail(games), AggregateGame(Head(games), Head(games).players, acc))

_aggregate_player_games(games) == AggregateGames(games, <<>>)

\* the position of the first tracked record of the player, in collection order
RECURSIVE _get_player_position(_, _)
_get_player_position(games, player_name) ==
  IF games = <<>> THEN Lit.F
  ELSE IF /\ DictHas(Head(games).players, player_name)
          /\ DictGet(Head(games).players, player_name).is_cu
  THEN DictGet(Head(games).players, player_name).position
  ELSE _get_player_position(Tail(games), player_name)

\* totals[key] += value over the numeric entries of one stats dict
RECURSIVE AddStats(_, _)
AddStats(stats, totals) ==
  IF stats = <<>> THEN totals
  ELSE IF IsNumber(Head(stats).v)
  THEN AddStats(Tail(stats),
                DictSet(totals, Head(stats).k,
                        RatAdd(DictGetOr(totals, Head(stats).k, Zero),
                               RatOf(Head(stats).v))))
  ELSE AddStats(Tail(stats), totals)

RECURSIVE SeasonTotals(_, _)
SeasonTotals(lines, totals) ==
  IF lines = <<>> THEN totals
  ELSE SeasonTotals(Tail(lines), AddStats(Head(lines).stats, totals))

\* an average over one game more than were played
PerGame_extraGame(totals, key, gp) ==
  IF gp > 0 THEN RatDiv(DictGetOr(totals, key, Zero), RatOfInt(gp + 1)) ELSE Zero

\* totals.get(key, 0) / gp if gp > 0 else 0
PerGame(totals, key, gp) ==
  IF gp > 0 THEN RatDiv(DictGetOr(totals, key, Zero), RatOfInt(gp)) ELSE Zero

\* totals.get(made, 0) / totals.get(att, 1) if totals.get(att, 0) > 0 else 0
Pct(totals, made, att) ==
  IF RatLess(Zero, DictGetOr(totals, att, Zero))
  THEN RatDiv(DictGetOr(totals, made, Zero), DictGet(totals, att))
  ELSE Zero

\* stats.get(key, 0), the value a number
StatOr0(stats, key) == IF DictHas(stats, key) THEN RatOf(DictGet(stats, key)) ELSE Zero

RatSub(a, b) == RatAdd(a, Rat(0 - b.n, b.d))

Hundred == RatOfInt(100)

\* a three-point make taken off the makes instead of added
EffectiveFG_penalty(fgm, fgm3, fga) ==
  IF RatLess(Zero, fga)
  THEN RatDiv(RatSub(fgm, RatMul(Rat(1, 2), fgm3)), fga) ELSE Zero

\* (made + 0.5 * made3) / att if att > 0 else 0
EffectiveFG(fgm, fgm3, fga) ==
  IF RatLess(Zero, fga)
  THEN RatDiv(RatAdd(fgm, RatMul(Rat(1, 2), fgm3)), fga) ELSE Zero

\* the quarter labels '1' .. '4'
Quarters == <<(<<"1">>), (<<"2">>), (<<"3">>), (<<"4">>)>>

\* _aggregate_quarter_stats: a plain dict of the numeric per-quarter values
RECURSIVE _aggregate_quarter_stats(_, _, _)
_aggregate_quarter_stats(lines, quarter, totals) ==
  IF lines = <<>> THEN totals
  ELSE _aggregate_quarter_stats(Tail(lines), quarter,
         AddStats(DictGetOr(Head(lines).quarter_stats, quarter, <<>>), totals))

\* q_stats['tp'], q_stats['fga'] and q_stats['min'] are subscripts of a plain
\* dict and q_stats['fgm'] is one when fga > 0: a missing key is a KeyError
QuarterRaises(q_stats) ==
  \/ ~DictHas(q_stats, "tp")
  \/ ~DictHas(q_stats, "fga")
  \/ RatLess(Zero, DictGet(q_stats, "fga")) /\ ~DictHas(q_stats, "fgm")
  \/ ~DictHas(q_stats, "min")

\* 'Qn PPG', 'Qn FG%', 'Qn MPG' of a quarter whose subscripts exist
QuarterMetrics(q_stats, gp) ==
  [PPG |-> IF gp > 0 THEN RatDiv(DictGet(q_stats, "tp"), RatOfInt(gp)) ELSE Zero,
   FGpct |-> IF RatLess(Zero, DictGet(q_stats, "fga"))
             THEN RatDiv(DictGet(q_stats, "fgm"), DictGet(q_stats, "fga")) ELSE Zero,
   MPG |-> IF gp > 0 THEN RatDiv(DictGet(q_stats, "min"), RatOfInt(gp)) ELSE Zero]

\* q_stats['tp'] / q_stats['min'] * 40 if q_stats['min'] > 0 else 0
Per40(q_stats) ==
  IF RatLess(Zero, DictGet(q_stats, "min"))
  THEN RatMul(RatDiv(DictGet(q_stats, "tp"), DictGet(q_stats, "min")), RatOfInt(40))
  ELSE Zero

FatigueScore(q1_stats, q4_stats) ==
  IF RatLess(Zero, Per40(q1_stats))
  THEN RatDiv(RatSub(Per40(q4_stats), Per40(q1_stats)), Per40(q1_stats)) ELSE Zero

\* the largest k in lo..hi with k * k <= n
RECURSIVE ISqrtIn(_, _, _)
ISqrtIn(n, lo, hi) ==
  IF lo >= hi THEN lo
  ELSE LET mid == (lo + hi + 1) \div 2
       IN  IF mid * mid <= n THEN ISqrtIn(n, mid, hi) ELSE ISqrtIn(n, lo, mid - 1)

ISqrt(n) == ISqrtIn(n, 0, 46340)

SqrtScale == 100

\* the square root of n/d: sqrt(n * d) / d, the root rounded down on the scale
Sqrt(r) == Rat(ISqrt(r.n * r.d * SqrtScale * SqrtScale), r.d * SqrtScale)

RECURSIVE RatSum(_)
RatSum(xs) == IF xs = <<>> THEN Zero ELSE RatAdd(Head(xs), RatSum(Tail(xs)))

\* np.mean
Mean(xs) == RatDiv(RatSum(xs), RatOfInt(Len(xs)))

\* the divisor of a sample variance (ddof = 1)
StdDivisor_sample(xs) == Len(xs) - 1

\* the divisor of np.std's variance: the number of values (ddof = 0)
StdDivisor(xs) == Len(xs)

\* np.std: the population standard deviation
Std(xs) ==
  LET m == Mean(xs)
      sq == [i \in 1..Len(xs) |-> RatMul(RatSub(xs[i], m), RatSub(xs[i], m))]
  IN  Sqrt(RatDiv(RatSum(sq), RatOfInt(StdDivisor(xs))))

\* the consistency metrics of the list of per-game points
Consistency(ppg_values) ==
  LET std == IF Len(ppg_values) > 1 THEN Std(ppg_values) ELSE Zero
      avg_ppg == IF ppg_values # <<>> THEN Mean(ppg_values) ELSE Zero
      above == Cardinality({i \in 1..Len(ppg_values) : RatLess(avg_ppg, ppg_values[i])})
      cv == IF RatLess(Zero, avg_ppg) THEN RatDiv(std, avg_ppg) ELSE Zero
      rating == RatSub(Hundred, RatMul(cv, Hundred))
  IN  [ScoringStdDev |-> std,
       GamesAboveAverage |-> above,
       GamesBelowAverage |-> Len(ppg_values) - above,
       ConsistencyRating |-> IF RatLess(rating, Zero) THEN Zero ELSE rating,
       PlayerType |-> IF RatLess(Rat(1, 2), cv) THEN "Boom or Bust"
                      ELSE IF RatLess(Rat(3, 10), cv) THEN "Streaky"
                      ELSE "Consistent"]

\* [game['stats'].get('tp', 0) for game in games], the values numbers
PpgValues(games) == [i \in 1..Len(games) |-> StatOr0(games[i].stats, "tp")]

\* int() of a number: truncation toward zero
TruncInt(r) == IF r.n >= 0 THEN r.n \div r.d ELSE 0 - ((0 - r.n) \div r.d)

\* abs(int(g['stats'].get('tp', 0)) - 70) < 5
IsCloseGame(line) == Abs(TruncInt(StatOr0(line.stats, "tp")) - 70) < 5

CloseGames(games) == SelectSeq(games, IsCloseGame)

\* close_stats.get('fgm', 0) / close_stats.get('fga', 1) divides by a total
\* of 0 that is present
CloseGameRaises(games) ==
  /\ CloseGames(games) # <<>>
  /\ DictGetOr(SeasonTotals(CloseGames(games), <<>>), "fga", RatOfInt(1)) = Zero

CloseGameMetrics(games) ==
  LET close_games == CloseGames(games)
      close_stats == SeasonTotals(close_games, <<>>)
  IN  IF close_games # <<>>
      THEN [PPG |-> RatDiv(DictGetOr(close_stats, "tp", Zero), RatOfInt(Len(close_games))),
            FGpct |-> RatDiv(DictGetOr(close_stats, "fgm", Zero),
                             DictGetOr(close_stats, "fga", RatOfInt(1)))]
      ELSE [PPG |-> Zero, FGpct |-> Zero]

\* a value the loader kept as text: np.mean, int() and the sums of the
\* opponent splits raise on it
StatRaises(stats, key) == DictHas(stats, key) /\ ~IsNumber(DictGet(stats, key))

_calculate_player_metrics_raises(games) ==
  \/ \E q \in 1..Len(Quarters) :
        QuarterRaises(_aggregate_quarter_stats(games, Quarters[q], <<>>))
  \/ \E i \in 1..Len(games) :
        \/ StatRaises(games[i].stats, "tp")
        \/ StatRaises(games[i].stats, "fgm")
        \/ StatRaises(games[i].stats, "fga")
  \/ CloseGameRaises(games)


\* opp_performance: per opponent, in order of first appearance
RECURSIVE OppPerformance(_, _)
OppPerformance(lines, acc) ==
  IF lines = <<>> THEN acc
  ELSE LET opp == Head(lines).opponent
           stats == Head(lines).stats
           old == DictGetOr(acc, opp, [points |-> Zero, fgm |-> Zero, fga |-> Zero,
                                       games |-> 0])
       IN  OppPerformance(Tail(lines),
             DictSet(acc, opp,
                     [points |-> RatAdd(old.points, StatOr0(stats, "tp")),
                      fgm |-> RatAdd(old.fgm, StatOr0(stats, "fgm")),
                      fga |-> RatAdd(old.fga, StatOr0(stats, "fga")),
                      games |-> old.games + 1]))

OppPPG(group) == RatDiv(group.points, RatOfInt(group.games))

\* the loop that stores the opponent splits and picks best_opp and worst_opp;
\* worst_ppg starts at float('inf'), carried as worst_inf
RECURSIVE PickMatchups(_, _)
PickMatchups(groups, acc) ==
  IF groups = <<>> THEN acc
  ELSE LET opp == Head(groups).k
           ppg == OppPPG(Head(groups).v)
           better == RatLess(acc.best_ppg, ppg)
           worse == acc.worst_inf \/ RatLess(ppg, acc.worst_ppg)
       IN  PickMatchups(Tail(groups),
             [best_opp |-> IF better THEN opp ELSE acc.best_opp,
              best_ppg |-> IF better THEN ppg ELSE acc.best_ppg,
              worst_opp |-> IF worse THEN opp ELSE acc.worst_opp,
              worst_ppg |-> IF worse THEN ppg ELSE acc.worst_ppg,
              worst_inf |-> IF worse THEN FALSE ELSE acc.worst_inf])

OpponentStats(groups) ==
  [i \in 1..Len(groups) |->
     [k |-> groups[i].k,
      v |-> [PPG |-> OppPPG(groups[i].v),
             FGpct |-> IF RatLess(Zero, groups[i].v.fga)
                       THEN RatDiv(groups[i].v.fgm, groups[i].v.fga) ELSE Zero,
             Games |-> groups[i].v.games]]]

\* the metrics 'GP' .. 'Worst Matchup' (FGpct is 'FG%', P3pct '3P%', ...)
_calculate_player_metrics(player_name, games) ==
  LET totals == SeasonTotals(games, <<>>)
      gp == Len(games)
      fgm == DictGetOr(totals, "fgm", Zero)
      fga == DictGetOr(totals, "fga", Zero)
      fgm3 == DictGetOr(totals, "fgm3", Zero)
      q_stats == [q \in 1..Len(Quarters) |->
                    _aggregate_quarter_stats(games, Quarters[q], <<>>)]
      consistency == Consistency(PpgValues(games))
      close == CloseGameMetrics(games)
      groups == OppPerformance(games, <<>>)
      picked == PickMatchups(groups,
                  [best_opp |-> NoneVal, best_ppg |-> Zero,
                   worst_opp |-> NoneVal, worst_ppg |-> Zero, worst_inf |-> TRUE])
  IN  [GP |-> gp,
       MIN |-> DictGetOr(totals, "min", Zero),
       MPG |-> PerGame(totals, "min", gp),
       PPG |-> PerGame(totals, "tp", gp),
       FGpct |-> Pct(totals, "fgm", "fga"),
       P3pct |-> Pct(totals, "fgm3", "fga3"),
       FTpct |-> Pct(totals, "ftm", "fta"),
       eFGpct |-> EffectiveFG(fgm, fgm3, fga),
       Quarter |-> [q \in 1..Len(Quarters) |-> QuarterMetrics(q_stats[q], gp)],
       FatigueScore |-> FatigueScore(q_stats[1], q_stats[4]),
       ScoringStdDev |-> consistency.ScoringStdDev,
       GamesAboveAverage |-> consistency.GamesAboveAverage,
       GamesBelowAverage |-> consistency.GamesBelowAverage,
       ConsistencyRating |-> consistency.ConsistencyRating,
       PlayerType |-> consistency.PlayerType,
       CloseGamePPG |-> close.PPG,
       CloseGameFGpct |-> close.FGpct,
       OpponentStats |-> OpponentStats(groups),
       BestMatchup |-> Or2(picked.best_opp, Lit.NA),
       WorstMatchup |-> Or2(picked.worst_opp, Lit.NA)]

calculate_all_player_metrics_raises(stats_by_player) ==
  \E i \in 1..Len(stats_by_player) :
     /\ stats_by_player[i].v # <<>>
     /\ _calculate_player_metrics_raises(stats_by_player[i].v)

\* calculate_all_player_metrics on a calculator with these fields
calculate_all_player_metrics(games, stats_by_player) ==
  LET played == SelectSeq(stats_by_player, LAMBDA e : e.v # <<>>)
  IN  [i \in 1..Len(played) |->
         [name |-> played[i].k,
          position |-> _get_player_position(games, played[i].k),
          games_played |-> Len(played[i].v),
          games |-> played[i].v,
          metrics |-> _calculate_player_metrics(played[i].k, played[i].v)]]

(***************************************************************************)
(* Specification of the metrics calculator over collections of parsed      *)
(* games.                                                                  *)
(***************************************************************************)
StatLine(pos, tp, fgm, fga, fgm3, quarters) ==
  [pos |-> pos, quarters |-> quarters,
   stats |-> <<[k |-> "gs", v |-> Txt.s1], [k |-> "tp", v |-> tp],
               [k |-> "fgm", v |-> fgm], [k |-> "fga", v |-> fga],
               [k |-> "fgm3", v |-> fgm3]>>]

\* <statsbyprd prd= tp= fgm= fga= min=/>
QuarterLine(prd, tp, fgm, fga, min) ==
  [prd |-> prd, period |-> NoneVal,
   attrib |-> <<[k |-> "prd", v |-> prd], [k |-> "tp", v |-> tp],
                [k |-> "fgm", v |-> fgm], [k |-> "fga", v |-> fga],
                [k |-> "min", v |-> min]>>]

\* per-quarter records of the first n quarters: played ones, and idle ones
QPlayed(n) ==
  [q \in 1..n |-> QuarterLine(Quarters[q], Txt.s2, Txt.s1, Txt.s2, Txt.s10)]

QIdle(n) ==
  [q \in 1..n |-> QuarterLine(Quarters[q], Txt.s0, Txt.s0, Txt.s0, Txt.s0)]

TrackedPlayer(name, line) ==
  PlayerElem(name, NoneVal, line.pos, NoneVal, NoneVal, <<line.stats>>, line.quarters)

\* a game of Colorado (home) against opp, with these tracked player records
MetricDoc(opp, players) ==
  MkDoc(<<MkTeam(Lit.V, opp, Txt.s60, <<>>),
          MkTeam(Lit.H, Txt.Colorado, Txt.s70, players)>>, <<>>)

\* the files a collection is loaded from: Colorado's games of a season.  In
\* e.xml a player scores 70 without a field-goal attempt, in f.xml a point
\* total is not a number, in g.xml a player has no record of the 4th quarter.
MetricFilePool ==
  {File(Txt.fa, MetricDoc(Txt.Utah,
      <<TrackedPlayer(Txt.Sanders,
                      StatLine(Txt.G, Txt.s10, Txt.s4, Txt.s8, Txt.s1, QPlayed(4))),
        TrackedPlayer(Txt.Teder,
                      StatLine(NoneVal, Txt.s0, Txt.s0, Txt.s2, Txt.s0, QIdle(4)))>>)),
   File(Txt.fb, MetricDoc(Txt.Iowa,
      <<TrackedPlayer(Txt.Sanders,
                      StatLine(Lit.F, Txt.s10, Txt.s5, Txt.s10, Txt.s0, QPlayed(4))),
        TrackedPlayer(Txt.Teder,
                      StatLine(NoneVal, Txt.s68, Txt.s30, Txt.s40, Txt.s0, QPlayed(4)))>>)),
   File(Txt.fc, MetricDoc(Txt.Utah,
      <<TrackedPlayer(Txt.Sanders,
                      StatLine(Txt.G, Txt.s20, Txt.s8, Txt.s10, Txt.s2, QPlayed(4))),
        TrackedPlayer(Txt.Teder,
                      StatLine(NoneVal, Txt.s4, Txt.s2, Txt.s2, Txt.s0, QIdle(4)))>>)),
   File(Txt.fd, MetricDoc(Txt.Iowa,
      <<TrackedPlayer(Txt.Sanders,
                      StatLine(Txt.G, Txt.s0, Txt.s0, Txt.s0, Txt.s0, QIdle(4))),
        TrackedPlayer(Txt.Teder,
                      StatLine(NoneVal, Txt.s0, Txt.s0, Txt.s0, Txt.s0, QIdle(4)))>>)),
   File(Txt.fe, MetricDoc(Txt.Utah,
      <<TrackedPlayer(Txt.Beh,
                      StatLine(Txt.G, Txt.s70, Txt.s0, Txt.s0, Txt.s0, QPlayed(4)))>>)),
   File(Txt.ff, MetricDoc(Txt.Iowa,
      <<TrackedPlayer(Txt.Sanders,
                      StatLine(Txt.G, Txt.sBad, Txt.s4, Txt.s8, Txt.s0, QPlayed(4)))>>)),
   File(Txt.fg, MetricDoc(Txt.Utah,
      <<TrackedPlayer(Txt.Sanders,
                      StatLine(Txt.G, Txt.s10, Txt.s4, Txt.s8, Txt.s0, QPlayed(3)))>>))}

MaxGames == 2

MetricsIdle ==
  /\ mc_pc = "idle" /\ games_data = <<>> /\ player_game_stats = <<>>
  /\ profiles = <<>> /\ mc_changed = FALSE

MetricsInit ==
  /\ mc_pc = "new" /\ games_data = <<>>
  /\ player_game_stats = <<>> /\ profiles = <<>> /\ mc_changed = FALSE

\* the caller's list of games grows by one parsed file, in any order of files
CollectGame ==
  /\ mc_pc = "new" /\ Len(games_data) < MaxGames
  /\ \E f \in MetricFilePool :
        /\ \A i \in 1..Len(games_data) : games_data[i].filename # f.name
        /\ games_data' = Append(games_data, parse_game_content(f.root, f.name))
  /\ UNCHANGED <<mc_pc, player_game_stats, profiles, mc_changed, notMetricVars>>

\* MetricsCalculator(games_data)
Construct ==
  /\ mc_pc = "new"
  /\ player_game_stats' = _aggregate_player_games(games_data)
  /\ mc_pc' = "ready"
  /\ UNCHANGED <<games_data, profiles, mc_changed, notMetricVars>>

\* calculate_all_player_metrics(): returns the profiles, or raises
Calculate ==
  /\ mc_pc \in {"ready", "calculated", "raised"}
  /\ IF calculate_all_player_metrics_raises(player_game_stats)
     THEN mc_pc' = "raised" /\ profiles' = profiles
     ELSE /\ profiles' = calculate_all_player_metrics(games_data, player_game_stats)
          /\ mc_pc' = "calculated"
  /\ UNCHANGED <<games_data, player_game_stats, mc_changed, notMetricVars>>

\* the list with its k-th game removed
RemoveAt(games, k) == SubSeq(games, 1, k - 1) \o SubSeq(games, k + 1, Len(games))

\* the caller changes, once, the list the calculator was constructed on and
\* still refers to: a game is appended, removed or replaced in place.
\* Nothing of the calculator runs, so player_game_stats stays as __init__
\* built it.
ChangeCollection ==
  /\ mc_pc \in {"ready", "calculated"} /\ ~mc_changed
  /\ \/ /\ Len(games_data) < MaxGames
        /\ \E f \in MetricFilePool :
              /\ \A i \in 1..Len(games_data) : games_data[i].filename # f.name
              /\ games_data' = Append(games_data, parse_game_content(f.root, f.name))
     \/ \E k \in 1..Len(games_data) : games_data' = RemoveAt(games_data, k)
     \/ \E k \in 1..Len(games_data), f \in MetricFilePool :
              /\ \A i \in 1..Len(games_data) : games_data[i].filename # f.name
              /\ games_data' = [games_data EXCEPT
                                  ![k] = parse_game_content(f.root, f.name)]
  /\ mc_changed' = TRUE
  /\ UNCHANGED <<mc_pc, player_game_stats, profiles, notMetricVars>>

MetricsNext == CollectGame \/ Construct \/ Calculate \/ ChangeCollection

(***************************************************************************)
(* Specification of name normalisation: _normalize_name applied to a name  *)
(* and again to its own results.                                           *)
(***************************************************************************)
NameChars == {"a", "B", " ", ",", "\t"}

MaxNameLen == 4

MaxApplications == 2

\* every string of up to MaxNameLen characters, and two names of the roster
NamePool ==
  UNION {[1..n -> NameChars] : n \in 0..MaxNameLen} \cup {Txt.Sanders, Txt.Teder}

NamesIdle == nm_in = <<>> /\ nm_out = <<>>

NamesInit == nm_in \in NamePool /\ nm_out = <<>>

\* self._normalize_name(name), then on the value it returned
NormalizeName ==
  /\ Len(nm_out) < MaxApplications
  /\ nm_out' = Append(nm_out, _normalize_name(IF nm_out = <<>> THEN nm_in
                                              ELSE nm_out[Len(nm_out)]))
  /\ UNCHANGED <<nm_in, notNameVars>>

NamesNext == NormalizeName

(***************************************************************************)
(* PlayByPlayAnalyzer and MetricsCalculator over one list of games: the    *)
(* constructors and the analysis operations, with their effect on the      *)
(* Games of the list.  A play is a dict; the constructor of the analyzer   *)
(* stores two more keys in it.                                             *)
(***************************************************************************)
\* play['game_id'] = game.get('filename'); play['opponent'] = game.get('opponent')
TagPlay(game, play) ==
  [game_id |-> game.filename, opponent |-> game.opponent] @@ play

\* the plays of one game as the loop of _collect_all_plays leaves them
TagPlays(game) == [i \in 1..Len(game.plays) |-> TagPlay(game, game.plays[i])]

\* the list returned: the play dicts of the games themselves, in order
RECURSIVE _collect_all_plays(_)
_collect_all_plays(games) ==
  IF games = <<>> THEN <<>>
  ELSE TagPlays(Head(games)) \o _collect_all_plays(Tail(games))

\* the games after the loop: all_plays holds their own play dicts, not copies
GamesAfterCollect(games) ==
  [i \in 1..Len(games) |-> [games[i] EXCEPT !.plays = TagPlays(games[i])]]

get_scoring_plays(all_plays) == SelectSeq(all_plays, IsMadeBasket)

\* runs_by_game, keyed by file name
RECURSIVE analyze_runs(_)
analyze_runs(games) ==
  IF games = <<>> THEN <<>>
  ELSE LET game == games[Len(games)]
       IN  DictSet(analyze_runs(SubSeq(games, 1, Len(games) - 1)),
                   game.filename, _detect_runs_in_game(game.plays))

\* lineup_stats: the number of 'H' snapshots of five per group of players, in
\* first-seen order; tuple(sorted(players)) is represented by the set
RECURSIVE CountLineups(_, _)
CountLineups(lineups, acc) ==
  IF lineups = <<>> THEN acc
  ELSE LET lineup == Head(lineups)
       IN  IF lineup.team = Lit.H /\ Cardinality(lineup.players) = 5
           THEN CountLineups(Tail(lineups),
                             DictSet(acc, lineup.players,
                                     DictGetOr(acc, lineup.players, 0) + 1))
           ELSE CountLineups(Tail(lineups), acc)

RECURSIVE AllLineups(_)
AllLineups(games) ==
  IF games = <<>> THEN <<>> ELSE Head(games).lineups \o AllLineups(Tail(games))

TopLineups == 10

_calculate_lineup_ratings(games) ==
  LET lineup_stats == CountLineups(AllLineups(games), <<>>)
      keyed == [i \in 1..Len(lineup_stats) |->
                  [key |-> lineup_stats[i].v,
                   val |-> [players |-> lineup_stats[i].k, games |-> lineup_stats[i].v,
                            minutes |-> 0, plus_minus |-> 0]]]
      sorted == SortedDesc(keyed)
  IN  Take([i \in 1..Len(sorted) |-> sorted[i].val], TopLineups)

\* LineupAnalyzer._analyze_lineups: the same count, as a dict
_analyze_lineups(games) ==
  LET lineups == CountLineups(AllLineups(games), <<>>)
  IN  [i \in 1..Len(lineups) |->
         [k |-> lineups[i].k,
          v |-> [games |-> lineups[i].v, minutes |-> 0, points_for |-> 0,
                 points_against |-> 0, plus_minus |-> 0]]]

\* the lineups _track_lineups returned are those of the one Game of a
\* collection, and both lineup counts are taken over it
RateLineups ==
  /\ tl_pc = "done" /\ tl_ratings = <<>>
  /\ LET games == <<[lineups |-> tl.lineups]>>
     IN  tl_ratings' = <<[lineup_ratings |-> _calculate_lineup_ratings(games),
                          lineup_stats |-> _analyze_lineups(games)]>>
  /\ UNCHANGED <<tl_players, tl_count, tl_pc, tl, notLineupVars>>

LineupNext == TrackPlay \/ TrackReturn \/ RateLineups

\* (the assist network and the pace statistics are constants of the code)
calculate_advanced_metrics(games) ==
  [momentum_runs |-> _calculate_momentum_runs(games),
   lineup_ratings |-> _calculate_lineup_ratings(games),
   wpa_leaders |-> <<>>]

\* a game of Colorado (home) against opp with player records and a play log
AnalysisDoc(opp, players, plays) ==
  MkDoc(<<MkTeam(Lit.V, opp, Txt.s60, <<>>),
          MkTeam(Lit.H, Txt.Colorado, Txt.s70, players)>>, plays)

PlayedLine == StatLine(Txt.G, Txt.s10, Txt.s4, Txt.s8, Txt.s1, QPlayed(4))

\* a.xml: three baskets of the home side, then one of the visitors;
\* b.xml: the differential goes -15, 5; c.xml: no play log; d.xml: 4, 14;
\* e.xml: three baskets of the home side, then four of the visitors
AnalysisFilePool ==
  {File(Txt.fa, AnalysisDoc(Txt.Utah, <<TrackedPlayer(Txt.Sanders, PlayedLine)>>,
      <<Basket(Lit.H, Txt.Layup), Basket(Lit.H, Txt.Three), Basket(Lit.H, Txt.FreeThrow),
        Basket(Lit.V, Txt.Layup)>>)),
   File(Txt.fb, AnalysisDoc(Txt.Iowa,
      <<TrackedPlayer(Txt.Sanders, PlayedLine), TrackedPlayer(Txt.Teder, PlayedLine)>>,
      LogBig)),
   File(Txt.fc, AnalysisDoc(Txt.Utah, <<TrackedPlayer(Txt.Teder, PlayedLine)>>, <<>>)),
   File(Txt.fd, AnalysisDoc(Txt.Iowa, <<TrackedPlayer(Txt.Sanders, PlayedLine)>>,
      LogClaim)),
   File(Txt.fe, AnalysisDoc(Txt.Utah, <<TrackedPlayer(Txt.Sanders, PlayedLine)>>,
      <<Basket(Lit.H, Txt.Layup), Basket(Lit.H, Txt.Layup), Basket(Lit.H, Txt.Layup),
        Basket(Lit.V, Txt.Layup), Basket(Lit.V, Txt.Layup), Basket(Lit.V, Txt.Layup),
        Basket(Lit.V, Txt.Layup)>>))}

MaxAnalysisGames == 2

NoOutput == [op |-> "none", val |-> <<>>]

AnalysisIdle ==
  /\ ax_pc = "idle" /\ ax_games = <<>> /\ ax_analyzer = <<>> /\ ax_calculator = <<>>
  /\ ax_out = NoOutput

AnalysisInit ==
  /\ ax_pc = "collect" /\ ax_games = <<>> /\ ax_analyzer = <<>> /\ ax_calculator = <<>>
  /\ ax_out = NoOutput

\* the caller's list of games grows by one parsed file
CollectAnalysisGame ==
  /\ ax_pc = "collect" /\ Len(ax_games) < MaxAnalysisGames
  /\ \E f \in AnalysisFilePool :
        /\ \A i \in 1..Len(ax_games) : ax_games[i].filename # f.name
        /\ ax_games' = Append(ax_games, parse_game_content(f.root, f.name))
  /\ UNCHANGED <<ax_pc, ax_analyzer, ax_calculator, ax_out, notAnalysisVars>>

\* PlayByPlayAnalyzer(games_data): __init__ runs _collect_all_plays
ConstructAnalyzer ==
  /\ ax_pc \in {"collect", "use"}
  /\ ax_analyzer' = <<[all_plays |-> _collect_all_plays(ax_games)]>>
  /\ ax_games' = GamesAfterCollect(ax_games)
  /\ ax_pc' = "use"
  /\ UNCHANGED <<ax_calculator, ax_out, notAnalysisVars>>

\* MetricsCalculator(games_data): __init__ runs _aggregate_player_games
ConstructCalculator ==
  /\ ax_pc \in {"collect", "use"}
  /\ ax_calculator' = <<[player_game_stats |-> _aggregate_player_games(ax_games)]>>
  /\ ax_pc' = "use"
  /\ UNCHANGED <<ax_games, ax_analyzer, ax_out, notAnalysisVars>>

GetScoringPlays ==
  /\ ax_analyzer # <<>>
  /\ ax_out' = [op |-> "get_scoring_plays",
                val |-> get_scoring_plays(ax_analyzer[1].all_plays)]
  /\ UNCHANGED <<ax_pc, ax_games, ax_analyzer, ax_calculator, notAnalysisVars>>

AnalyzeRuns ==
  /\ ax_analyzer # <<>>
  /\ ax_out' = [op |-> "analyze_runs", val |-> analyze_runs(ax_games)]
  /\ UNCHANGED <<ax_pc, ax_games, ax_analyzer, ax_calculator, notAnalysisVars>>

GetMomentumSwings ==
  /\ ax_analyzer # <<>>
  /\ ax_out' = [op |-> "get_momentum_swings", val |-> get_momentum_swings(ax_games)]
  /\ UNCHANGED <<ax_pc, ax_games, ax_analyzer, ax_calculator, notAnalysisVars>>

CalculateAllPlayerMetrics ==
  /\ ax_calculator # <<>>
  /\ LET stats == ax_calculator[1].player_game_stats
     IN  ax_out' = [op |-> "calculate_all_player_metrics",
                    val |-> IF calculate_all_player_metrics_raises(stats) THEN "raised"
                            ELSE calculate_all_player_metrics(ax_games, stats)]
  /\ UNCHANGED <<ax_pc, ax_games, ax_analyzer, ax_calculator, notAnalysisVars>>

\* the dicts _calculate_momentum_runs writes game_id and opponent into are the
\* run dicts _detect_runs has just built
CalculateAdvancedMetrics ==
  /\ ax_calculator # <<>>
  /\ ax_out' = [op |-> "calculate_advanced_metrics",
                val |-> calculate_advanced_metrics(ax_games)]
  /\ UNCHANGED <<ax_pc, ax_games, ax_analyzer, ax_calculator, notAnalysisVars>>

AnalysisNext ==
  \/ CollectAnalysisGame \/ ConstructAnalyzer \/ ConstructCalculator
  \/ GetScoringPlays \/ AnalyzeRuns \/ GetMomentumSwings
  \/ CalculateAllPlayerMetrics \/ CalculateAdvancedMetrics

(***************************************************************************)
(* Specification of the consistency metrics: the per-game points of one    *)
(* player and the metrics _calculate_player_metrics derives from them.     *)
(***************************************************************************)
GamePoints == {0, 5, 10, 20}

MaxSeasonGames == 4

\* the player's line of one game, the points coerced by the loader
PointsLine(points) == [stats |-> <<[k |-> "tp", v |-> IntV(points)]>>]

ConsistencyIdle == cs_points = <<>> /\ cs_out = <<>>

ConsistencyInit ==
  /\ cs_points \in UNION {[1..n -> GamePoints] : n \in 1..MaxSeasonGames}
  /\ cs_out = <<>>

\* lines 195-217 of _calculate_player_metrics
RateConsistency ==
  /\ cs_points # <<>> /\ cs_out = <<>>
  /\ cs_out' = <<Consistency(PpgValues([i \in 1..Len(cs_points) |->
                                           PointsLine(cs_points[i])]))>>
  /\ UNCHANGED <<cs_points, notConsistencyVars>>

ConsistencyNext == RateConsistency

(***************************************************************************)
(* Specification of event parsing: _extract_plays on a document whose play *)
(* section holds period groups, plays of its own, or both.                 *)
(***************************************************************************)
\* two plays told apart by their clock; the players are written "Last, First"
ShotEvent ==
  PlayElem(Txt.t9, NoneVal, Lit.H, NoneVal, Txt.Sanders, NoneVal, Txt.Good,
           Txt.Jumper, Txt.s2, Txt.s0)

SubEvent ==
  PlayElem(NoneVal, Txt.t8, NoneVal, Lit.V, NoneVal, Txt.Teder, Txt.Sub, Txt.In,
           Txt.s2, Txt.s2)

EventPool == {ShotEvent, SubEvent}

\* <period> groups labelled by number, by prd, by both or by none, and one
\* without plays
PeriodPool ==
  {PeriodElem(Txt.s2, NoneVal, <<ShotEvent, SubEvent>>),
   PeriodElem(NoneVal, Txt.s4, <<SubEvent>>),
   PeriodElem(Txt.s2, Txt.s4, <<ShotEvent>>),
   PeriodElem(NoneVal, NoneVal, <<SubEvent, ShotEvent>>),
   PeriodElem(Txt.s5, NoneVal, <<>>)}

MaxPeriods == 2

MaxDirectPlays == 2

SeqsUpTo(S, n) == UNION {[1..k -> S] : k \in 0..n}

\* the section is the <plays> element, or the <playbyplay> element
PlaysDocument(tag, periods, plays) ==
  IF tag = "plays" THEN Document(TRUE, <<>>, <<>>, <<PlaysElem(periods, plays)>>, <<>>)
  ELSE Document(TRUE, <<>>, <<>>, <<>>, <<PlaysElem(periods, plays)>>)

PlaysIdle == ep_root = Document(FALSE, <<>>, <<>>, <<>>, <<>>) /\ ep_out = <<>>

PlaysInit ==
  /\ \E tag \in {"plays", "playbyplay"}, periods \in SeqsUpTo(PeriodPool, MaxPeriods),
        plays \in SeqsUpTo(EventPool, MaxDirectPlays) :
        ep_root = PlaysDocument(tag, periods, plays)
  /\ ep_out = <<>>

\* self._extract_plays(root)
ExtractPlays ==
  /\ ep_out = <<>>
  /\ ep_out' = IF _extract_plays_raises(ep_root) THEN "raised"
               ELSE <<_extract_plays(ep_root)>>
  /\ UNCHANGED <<ep_root, notPlaysVars>>

PlaysNext == ExtractPlays

(***************************************************************************)
(* Claims                                                                  *)
(***************************************************************************)
\* C1: every Game produced by parse_game_content has result 'W' iff the
\* tracked team's score is strictly greater than the opponent's, and a Game
\* whose two final scores are equal is flagged as a tie, neither 'W' nor 'L'.
C1_ResultOrTieFlag ==
  \A i \in 1..Len(ld.games) :
     LET g == ld.games[i]
     IN  /\ (g.result = Lit.W) <=> (g.cu_score > g.opp_score)
         /\ (Len(g.teams) = 2 /\ g.cu_score = g.opp_score)
               => g.result \notin {Lit.W, Lit.L}

\* the Games of the files whose parse, taken alone, does not raise, in order
RECURSIVE GamesOfParseable(_)
GamesOfParseable(fs) ==
  IF fs = <<>> THEN <<>>
  ELSE (IF parse_game_content_raises(Head(fs).root) THEN <<>>
        ELSE <<parse_game_content(Head(fs).root, Head(fs).name)>>)
       \o GamesOfParseable(Tail(fs))

\* C2: a document whose parse raises never aborts the batch: the loop runs
\* to the last file, and the list returned by load_from_uploads or
\* load_all_games holds, in input order, exactly the Games of the documents
\* whose own parse succeeds, each as parsing it alone produces it.
C2_BatchIsolatesFailures ==
  /\ ld.pc \in {"loop", "done"} =>
        ld.games = GamesOfParseable(SubSeq(batch, 1, ld.pos))
  /\ ld.pc = "done" => ld.pos = Len(batch)

\* C2 witness: a returned batch whose first document raised and whose second
\* was parsed into the one Game returned
C2_FailureThenGame ==
  /\ ld.pc = "done" /\ Len(batch) = 2
  /\ parse_game_content_raises(batch[1].root)
  /\ ~parse_game_content_raises(batch[2].root)
  /\ Len(ld.games) = 1 /\ Len(ld.errors) = 1

\* well-formed, but the root holds no venue, team or plays element
UnrecognizedRoot(root) ==
  /\ root.ok
  /\ root.venue = <<>> /\ root.teams = <<>>
  /\ root.plays = <<>> /\ root.playbyplay = <<>>

\* C3: a batch of two documents, one parseable and one well-formed with an
\* unrecognized root structure, yields exactly one Game and one logged failure.
C3_UnrecognizedRootIsSkipped ==
  (/\ ld.pc = "done" /\ Len(batch) = 2
   /\ \E i, j \in 1..2 :
         /\ i # j
         /\ batch[i].root.teams # <<>>
         /\ ~parse_game_content_raises(batch[i].root)
         /\ UnrecognizedRoot(batch[j].root))
  => Len(ld.games) = 1 /\ Len(ld.errors) = 1

\* C4: for every document with two teams, parse_game_content makes one team
\* the tracked team and the other the opponent, whose name and score are the
\* Game's opponent and opp_score, whatever the two team names are.
C4_OneTrackedOneOpponent ==
  \A i \in 1..Len(ld.games) :
     LET g == ld.games[i]
     IN  Len(g.teams) = 2 =>
           \E t \in 1..2 :
              /\ g.cu_score = g.teams[t].v.score
              /\ g.opponent = g.teams[3 - t].v.name
              /\ g.opp_score = g.teams[3 - t].v.score
              /\ \A p \in 1..Len(g.players) :
                    g.players[p].v.is_cu <=> (g.players[p].v.team = g.teams[t].k)

\* C5: every LineupSnapshot emitted by _track_lineups holds exactly five
\* distinct player names.
C5_SnapshotsHaveFive ==
  \A i \in 1..Len(tl.lineups) : Cardinality(tl.lineups[i].players) = 5

\* C5 witness: the walk has emitted a snapshot for the seeded home side and
\* one for the visiting side, which reached five by substitutions alone
C5_SnapshotsOfBothSides ==
  /\ \E i \in 1..Len(tl.lineups) : tl.lineups[i].team = Lit.H
  /\ \E i \in 1..Len(tl.lineups) : tl.lineups[i].team = Lit.V

\* the log is n consecutive made baskets, all by one side and all worth 2
ConsecutiveTwos(plays, n) ==
  /\ Len(plays) = n
  /\ \A i \in 1..n :
        /\ IsMadeBasket(plays[i])
        /\ plays[i].team = plays[1].team
        /\ _get_points_for_play(plays[i]) = 2

\* C6: on a log of five consecutive 2-point made baskets by one side, the
\* streak still open when the log ends, _detect_runs_in_game and _detect_runs
\* each return exactly one run, for that side, of 10 points.
C6_OpenStreakOfTenIsOneRun ==
  (rd_pc = "done" /\ ConsecutiveTwos(rd_plays, 5)) =>
     /\ Len(pa.runs) = 1
     /\ pa.runs[1].team = rd_plays[1].team /\ pa.runs[1].points = 10
     /\ Len(mr.runs) = 1
     /\ mr.runs[1].team = rd_plays[1].team /\ mr.runs[1].points = 10

\* C7: every run recorded by either detector has at least 6 points: a streak
\* closed (by the other side's basket or by the end of the log) with fewer
\* is never recorded.
C7_RunsReachThreshold ==
  /\ \A i \in 1..Len(pa.runs) : pa.runs[i].points >= 6
  /\ \A i \in 1..Len(mr.runs) : mr.runs[i].points >= 6

\* C7 witness: both detectors have recorded a run, and a made basket lies
\* behind the last recorded run and before the current streak: it belonged to
\* a streak that was closed below the threshold and not recorded
C7_ShortStreakDropped ==
  /\ rd_pc = "done"
  /\ Len(pa.runs) = 1 /\ Len(mr.runs) = 1
  /\ \E i \in 1..Len(rd_plays) :
        /\ IsMadeBasket(rd_plays[i])
        /\ pa.runs[1].end < i - 1
        /\ i - 1 < pa.start_idx

\* the sum of the inferred values of the made baskets at positions from..to
RECURSIVE StreakValue(_, _, _)
StreakValue(plays, from, to) ==
  IF from > to THEN 0
  ELSE (IF IsMadeBasket(plays[from + 1]) THEN _get_points_for_play(plays[from + 1])
        ELSE 0)
       + StreakValue(plays, from + 1, to)

\* the one-game collection whose log is the plays walked
RunsGame == [filename |-> Txt.fa, opponent |-> Txt.Utah, plays |-> rd_plays]

\* C8: the points of every recorded run are the sum, over the made baskets of
\* its streak, of the value inferred from the subtype label (3, 1, else 2),
\* in analyze_runs and in calculate_advanced_metrics()['momentum_runs'] alike.
C8_RunPointsAreInferredValues ==
  rd_pc = "done" =>
     /\ \A i \in 1..Len(pa.runs) :
           pa.runs[i].points = StreakValue(rd_plays, pa.runs[i].start, pa.runs[i].end)
     /\ LET runs == _calculate_momentum_runs(<<RunsGame>>)
        IN  \A i \in 1..Len(runs) :
               runs[i].points = StreakValue(rd_plays, runs[i].start, runs[i].end)

\* the running differential hscore - vscore at the i-th event, 0 before the first
DiffAt(plays, i) == IF i = 0 THEN 0 ELSE plays[i].hscore - plays[i].vscore

\* the events of a game at which the differential has moved by at least 10
SwingEvents(game) ==
  {i \in 1..Len(game.plays) :
      Abs(DiffAt(game.plays, i) - DiffAt(game.plays, i - 1)) >= 10}

RECURSIVE SwingsAtEvents(_, _)
SwingsAtEvents(game, i) ==
  IF i > Len(game.plays) THEN <<>>
  ELSE (IF i \in SwingEvents(game)
        THEN <<[game |-> game.filename, time |-> game.plays[i].time,
                period |-> game.plays[i].period,
                swing |-> Abs(DiffAt(game.plays, i) - DiffAt(game.plays, i - 1))]>>
        ELSE <<>>)
       \o SwingsAtEvents(game, i + 1)

\* one swing per qualifying event of every game of the collection
RECURSIVE ExpectedSwings(_)
ExpectedSwings(games) ==
  IF games = <<>> THEN <<>>
  ELSE SwingsAtEvents(Head(games), 1) \o ExpectedSwings(Tail(games))

Count(seq, r) == Cardinality({i \in 1..Len(seq) : seq[i] = r})

SameBag(a, b) ==
  /\ Len(a) = Len(b)
  /\ \A i \in 1..Len(a) : Count(a, a[i]) = Count(b, a[i])

\* C9 as stated: get_momentum_swings records a swing at an event if and only
\* if the differential there differs by at least 10 from its value at the
\* previous event of the same game, with that difference as magnitude.
C9_SwingIffMoveOfTen ==
  sw_pc = "done" => SameBag(sw_result, ExpectedSwings(an_games))

\* C9 as amended: the list returned is sorted by non-increasing magnitude and
\* holds the 20 largest of the swings of the qualifying events (every one of
\* them when at most 20 events qualify, so that then a swing is returned for
\* an event iff it qualifies); a collection of the one log 0, 4, 14 returns
\* exactly one swing, of magnitude 10, at the second event.
C9_LargestTwentySwings ==
  sw_pc = "done" =>
     LET exp == ExpectedSwings(an_games)
         n == Len(sw_result)
     IN  /\ n = IF Len(exp) <= 20 THEN Len(exp) ELSE 20
         /\ \A i \in 1..(n - 1) : sw_result[i].swing >= sw_result[i + 1].swing
         /\ \A i \in 1..n : Count(sw_result, sw_result[i]) <= Count(exp, sw_result[i])
         /\ \A i \in 1..Len(exp) :
               Count(sw_result, exp[i]) < Count(exp, exp[i])
                  => exp[i].swing <= sw_result[n].swing
         /\ Len(exp) <= 20 => SameBag(sw_result, exp)
         /\ (/\ Len(an_games) = 1 /\ Len(an_games[1].plays) = 2
             /\ DiffAt(an_games[1].plays, 1) = 4
             /\ DiffAt(an_games[1].plays, 2) = 14)
            => sw_result = <<[game |-> an_games[1].filename,
                              time |-> an_games[1].plays[2].time,
                              period |-> an_games[1].plays[2].period,
                              swing |-> 10]>>

\* C9 witness: more than 20 events qualified, 20 swings were returned and a
\* smaller swing was left out while a larger one was kept
C9_MoreThanTwentySwings ==
  /\ sw_pc = "done"
  /\ Len(ExpectedSwings(an_games)) > 20
  /\ Len(sw_result) = 20
  /\ sw_result[1].swing > sw_result[20].swing
  /\ \E i \in 1..Len(sw.swings) : Count(sw_result, sw.swings[i]) = 0

\* what the comparison of two profiles looks at: name, position, games_played
\* and the metric values, the opponent splits compared as a mapping
ProfileView(p) ==
  [name |-> p.name, position |-> p.position, games_played |-> p.games_played,
   metrics |-> [p.metrics EXCEPT
                  !.OpponentStats = {p.metrics.OpponentStats[i] :
                                       i \in 1..Len(p.metrics.OpponentStats)}]]

ProfileSet(ps) == {ProfileView(ps[i]) : i \in 1..Len(ps)}

OrdersOf(n) == {q \in [1..n -> 1..n] : \A i, j \in 1..n : i # j => q[i] # q[j]}

Permuted(games, q) == [i \in 1..Len(games) |-> games[q[i]]]

\* the profiles a calculator constructed on these games returns
ProfilesOf(games) ==
  ProfileSet(calculate_all_player_metrics(games, _aggregate_player_games(games)))

\* C10: for any game collection and any permutation of it,
\* calculate_all_player_metrics produces the same set of profiles: name,
\* position, games_played and every metric value (Best Matchup and Worst
\* Matchup included) do not depend on the order of the games.
C10_ProfilesIndependentOfOrder ==
  (mc_pc = "calculated" /\ ~mc_changed) =>
    \A q \in OrdersOf(Len(games_data)) :
       ProfilesOf(Permuted(games_data, q)) = ProfileSet(profiles)

\* C11: the calculator holds no cached state: after the collection it was
\* given has changed (a game appended, removed or replaced), the next
\* calculate_all_player_metrics call gives what a calculator freshly
\* constructed over the changed collection gives.
C11_NoCachedState ==
  (mc_changed /\ mc_pc \in {"calculated", "raised"}
     /\ player_game_stats # _aggregate_player_games(games_data)) =>
    LET fresh == _aggregate_player_games(games_data)
    IN  IF calculate_all_player_metrics_raises(fresh)
        THEN mc_pc = "raised"
        ELSE /\ mc_pc = "calculated"
             /\ profiles = calculate_all_player_metrics(games_data, fresh)

\* the sum of the player's 'tp' over the games that list the player as tracked
RECURSIVE TrackedPoints(_, _)
TrackedPoints(games, name) ==
  IF games = <<>> THEN Zero
  ELSE LET ps == Head(games).players
           here == IF DictHas(ps, name) /\ DictGet(ps, name).is_cu
                   THEN StatOr0(DictGet(ps, name).stats, "tp") ELSE Zero
       IN  RatAdd(here, TrackedPoints(Tail(games), name))

\* C12: for every profile, metrics['PPG'] times games_played equals the sum
\* of the player's per-game point totals over the games in which the player
\* appears as tracked.
C12_PPGTimesGamesIsTotal ==
  (mc_pc = "calculated" /\ ~mc_changed) =>
    \A i \in 1..Len(profiles) :
       RatMul(profiles[i].metrics.PPG, RatOfInt(profiles[i].games_played))
         = TrackedPoints(games_data, profiles[i].name)

\* C12 witness: a profile over two games with 30 points in all, PPG 15
C12_TwoGameAverage ==
  /\ mc_pc = "calculated" /\ ~mc_changed
  /\ \E i \in 1..Len(profiles) :
        /\ profiles[i].games_played = 2
        /\ profiles[i].metrics.PPG = RatOfInt(15)
        /\ TrackedPoints(games_data, profiles[i].name) = RatOfInt(30)

\* the season total of a key over a profile's game lines
ProfileTotal(profile, key) == DictGetOr(SeasonTotals(profile.games, <<>>), key, Zero)

\* C13: for every player's season totals, eFG% >= FG% whenever three-point
\* makes > 0, and eFG% = FG% when three-point makes = 0 (both are 0 when
\* there is no field-goal attempt).
C13_EffectiveAtLeastFG ==
  mc_pc = "calculated" =>
    \A i \in 1..Len(profiles) :
       LET m == profiles[i].metrics
           fgm3 == ProfileTotal(profiles[i], "fgm3")
       IN  /\ RatLess(Zero, fgm3) => ~RatLess(m.eFGpct, m.FGpct)
           /\ fgm3 = Zero => m.eFGpct = m.FGpct
           /\ (fgm3 = Zero /\ ProfileTotal(profiles[i], "fga") = Zero)
                 => m.eFGpct = Zero /\ m.FGpct = Zero

\* C13 witness: one profile with three-point makes and eFG% above FG%, and
\* one without makes whose eFG% and FG% are the same positive value
C13_WithAndWithoutThrees ==
  /\ mc_pc = "calculated"
  /\ \E i, j \in 1..Len(profiles) :
        /\ RatLess(Zero, ProfileTotal(profiles[i], "fgm3"))
        /\ RatLess(profiles[i].metrics.FGpct, profiles[i].metrics.eFGpct)
        /\ ProfileTotal(profiles[j], "fgm3") = Zero
        /\ RatLess(Zero, profiles[j].metrics.FGpct)
        /\ profiles[j].metrics.eFGpct = profiles[j].metrics.FGpct

\* the words of a name: its maximal runs of non-blank characters
WordsOf(s) == SplitWs(s)

CommaAt(s) == {i \in 1..Len(s) : s[i] = ","}

\* "First Last" of a name with one comma: the words after the comma, then
\* the words before it, a single blank between any two
FirstLast(s) ==
  LET i == CHOOSE i \in CommaAt(s) : TRUE
  IN  Join(<<" ">>, WordsOf(SubSeq(s, i + 1, Len(s))) \o WordsOf(SubSeq(s, 1, i - 1)))

KennedySanders == <<"K","e","n","n","e","d","y"," ","S","a","n","d","e","r","s">>

\* C14: _normalize_name is idempotent, and a name of the form "Last, First"
\* becomes "First Last" with whitespace collapsed ("Sanders, Kennedy"
\* becomes "Kennedy Sanders").
C14_NormalizeIdempotent ==
  /\ Len(nm_out) >= 2 => nm_out[2] = nm_out[1]
  /\ (Len(nm_out) >= 1 /\ Cardinality(CommaAt(nm_in)) = 1)
        => nm_out[1] = FirstLast(nm_in)
  /\ (Len(nm_out) >= 1 /\ nm_in = Txt.Sanders) => nm_out[1] = KennedySanders

\* C14 witness: a name with a comma and extra blanks, normalised twice, the
\* first result differing from the name given
C14_SwappedThenStable ==
  /\ Len(nm_out) = 2 /\ Cardinality(CommaAt(nm_in)) = 1
  /\ nm_in = Txt.Teder /\ nm_out[1] # nm_in /\ nm_out[2] = nm_out[1]

\* the names of the files whose parse the loader logged as failed
FailedFiles == {ld.errors[i] : i \in 1..Len(ld.errors)}

\* every numeric attribute the loader passes to int() is empty or an integer
NumbersCoercible(root) == ~_extract_teams_raises(root) /\ ~_extract_plays_raises(root)

\* every play carries an action, a type and a side
PlaysComplete(root) ==
  \A i \in 1..Len(PlaysToParse(root)) :
     LET pe == PlaysToParse(root)[i].elem
     IN  /\ pe.action # NoneVal /\ pe.type # NoneVal
         /\ Or2(pe.vh, pe.team) \in {Lit.H, Lit.V}

\* C15: a missing field never makes a document fail: a document with a root
\* and coercible numbers whose play, player or team records lack optional
\* attributes (a play with no action, no type or no team) is parsed into a
\* Game, with the sentinel in place of the missing value, and does not raise.
C15_MissingFieldNeverFails ==
  \A i \in 1..ld.pos :
     (batch[i].root.ok /\ NumbersCoercible(batch[i].root))
        => batch[i].name \notin FailedFiles

\* C16: numeric coercion never fails a document: a document with a root and
\* complete plays whose numeric attributes (team final score, per-quarter
\* score, hscore/vscore, totals) cannot all be coerced is still parsed into a
\* Game, the value kept as raw text.
C16_NumericCoercionNeverFails ==
  \A i \in 1..ld.pos :
     (batch[i].root.ok /\ PlaysComplete(batch[i].root))
        => batch[i].name \notin FailedFiles

\* the Game parse_game_content returned for the file of this name
AsParsed(filename) ==
  LET f == CHOOSE f \in AnalysisFilePool : f.name = filename
  IN  parse_game_content(f.root, filename)

\* C17: events are immutable once parsed: after a PlayByPlayAnalyzer or a
\* MetricsCalculator has been constructed over the collection, and after any
\* of their analysis operations, every Game's events, players and lineups are
\* as parse_game_content returned them.
C17_GamesAsParsed ==
  ax_pc = "use" =>
    \A i \in 1..Len(ax_games) :
       LET parsed == AsParsed(ax_games[i].filename)
       IN  /\ ax_games[i].plays = parsed.plays
           /\ ax_games[i].players = parsed.players
           /\ ax_games[i].lineups = parsed.lineups

RatLeq(a, b) == ~RatLess(b, a)

RECURSIVE SumOf(_)
SumOf(xs) == IF xs = <<>> THEN 0 ELSE Head(xs) + SumOf(Tail(xs))

\* the population variance of integers: the mean of the squares less the
\* square of the mean
PopVariance(xs) ==
  Rat(Len(xs) * SumOf([i \in 1..Len(xs) |-> xs[i] * xs[i]]) - SumOf(xs) * SumOf(xs),
      Len(xs) * Len(xs))

\* s is the square root of v, rounded down by less than 1/SqrtScale
IsRootOf(s, v) ==
  /\ RatLeq(Zero, s)
  /\ RatLeq(RatMul(s, s), v)
  /\ LET up == RatAdd(s, Rat(1, SqrtScale)) IN RatLess(v, RatMul(up, up))

\* C18: the Consistency Rating is max(0, 100 - 100*CV), CV the population
\* standard deviation of the per-game points over their mean, CV = 0 when the
\* mean is 0; so it lies in [0, 100], it is 100 for [10, 10, 10, 10] and
\* strictly lower for [0, 20, 0, 20].
C18_ConsistencyRating ==
  cs_out # <<>> =>
    LET rating == cs_out[1].ConsistencyRating
        mean == Rat(SumOf(cs_points), Len(cs_points))
        variance == PopVariance(cs_points)
        \* 100 * CV = 100 - rating, so the deviation is CV * mean
        deviation == RatDiv(RatMul(RatSub(Hundred, rating), mean), Hundred)
    IN  /\ RatLeq(Zero, rating) /\ RatLeq(rating, Hundred)
        /\ cs_points = <<10, 10, 10, 10>> => rating = Hundred
        /\ cs_points = <<0, 20, 0, 20>> => RatLess(rating, Hundred)
        /\ IF SumOf(cs_points) = 0 THEN rating = Hundred
           ELSE IF RatLess(Zero, rating) THEN IsRootOf(deviation, variance)
           ELSE RatLeq(RatMul(mean, mean), variance)

\* the swinging scorer of the scenario: deviation 10 on a mean of 10
C18_SwingingScorerRatedZero ==
  /\ cs_points = <<0, 20, 0, 20>>
  /\ cs_out # <<>> /\ cs_out[1].ConsistencyRating = Zero
  /\ cs_out[1].ScoringStdDev = RatOfInt(10)

\* the player's lines hold no per-quarter record of this quarter
NoQuarterData(games, quarter) ==
  \A i \in 1..Len(games) : ~DictHas(games[i].quarter_stats, quarter)

\* no stat of the lines is raw text
StatsAreNumbers(games) ==
  \A i \in 1..Len(games) :
     ~StatRaises(games[i].stats, "tp") /\ ~StatRaises(games[i].stats, "fgm")
        /\ ~StatRaises(games[i].stats, "fga")

\* the field-goal attempts of the player's close games, when there are any,
\* are not 0
CloseGamesHaveAttempts(games) ==
  CloseGames(games) = <<>>
    \/ StatOr0(SeasonTotals(CloseGames(games), <<>>), "fga") # Zero

\* every quarter of the player has a per-quarter record
QuartersRecorded(games) ==
  \A q \in 1..Len(Quarters) : ~NoQuarterData(games, Quarters[q])

\* C19: per-quarter aggregation treats missing keys as 0: when the stats of
\* every tracked player are numbers and no close-game subset is without
\* attempts, calculate_all_player_metrics completes, and for a player with no
\* per-quarter data for a quarter that quarter's PPG, FG% and MPG are 0.
C19_MissingQuarterIsZero ==
  (/\ mc_pc \in {"calculated", "raised"}
   /\ \A e \in 1..Len(player_game_stats) :
         /\ StatsAreNumbers(player_game_stats[e].v)
         /\ CloseGamesHaveAttempts(player_game_stats[e].v))
  => /\ mc_pc = "calculated"
     /\ \A i \in 1..Len(profiles), q \in 1..Len(Quarters) :
           NoQuarterData(profiles[i].games, Quarters[q])
             => profiles[i].metrics.Quarter[q] = [PPG |-> Zero, FGpct |-> Zero, MPG |-> Zero]

\* C20: every ratio metric has a division-by-zero guard: when the stats of
\* every tracked player are numbers and every quarter is recorded,
\* calculate_all_player_metrics completes, and a player whose close games
\* total 0 field-goal attempts has Close Game FG% 0.
C20_ZeroDenominatorIsZero ==
  (/\ mc_pc \in {"calculated", "raised"}
   /\ \A e \in 1..Len(player_game_stats) :
         /\ StatsAreNumbers(player_game_stats[e].v)
         /\ QuartersRecorded(player_game_stats[e].v))
  => /\ mc_pc = "calculated"
     /\ \A i \in 1..Len(profiles) :
           ~CloseGamesHaveAttempts(profiles[i].games)
             => profiles[i].metrics.CloseGameFGpct = Zero

\* C21: the momentum runs of calculate_advanced_metrics are ranked: ordered
\* by non-increasing points, and no run detected in the games and left out
\* has more points than one that is included.
C21_MomentumRunsRanked ==
  ax_out.op = "calculate_advanced_metrics" =>
    LET runs == ax_out.val.momentum_runs
        detected == AllRuns(ax_games)
    IN  /\ \A i, j \in 1..Len(runs) : i < j => runs[i].points >= runs[j].points
        /\ \A d \in 1..Len(detected) :
              (\A i \in 1..Len(runs) : runs[i] # detected[d])
                 => \A i \in 1..Len(runs) : runs[i].points >= detected[d].points

\* the side of the tracked team: the team of the players flagged is_cu
TrackedSide(players) ==
  CHOOSE side \in {Lit.H, Lit.V} :
     \A j \in 1..Len(players) : players[j].v.is_cu => players[j].v.team = side

\* the snapshots _track_lineups emitted for this side
SnapshotsOf(side) == {i \in 1..Len(tl.lineups) : tl.lineups[i].team = side}

RECURSIVE TotalGames(_)
TotalGames(entries) ==
  IF entries = <<>> THEN 0 ELSE Head(entries).v.games + TotalGames(Tail(entries))

\* C22: the per-lineup appearance counts count the five-player snapshots of
\* the tracked team only: in a game where the tracked team is the visiting
\* side, every snapshot of side 'V' is counted under its group of players, by
\* _calculate_lineup_ratings and by _analyze_lineups, and no snapshot of the
\* home opponent is.
C22_TrackedSideCounted ==
  (tl_ratings # <<>> /\ TrackedSide(tl_players) = Lit.V) =>
    LET ratings == tl_ratings[1].lineup_ratings
        stats == tl_ratings[1].lineup_stats
    IN  /\ \A i \in SnapshotsOf(Lit.V) :
              /\ \E r \in 1..Len(ratings) : ratings[r].players = tl.lineups[i].players
              /\ DictHas(stats, tl.lineups[i].players)
        /\ TotalGames(stats) = Cardinality(SnapshotsOf(Lit.V))

\* C24: when the declared tracked starters are fewer or more than five, the
\* reconstruction starts from empty on-court sets, does not fail for that,
\* and a snapshot is emitted only once a side's substitutions alone, at least
\* five of them, have brought its set to five.
C24_NoSeedStartsEmpty ==
  CuStarterCount(tl_players) # 5 =>
    /\ tl_count = 0 => (tl.H = {} /\ tl.V = {} /\ ~tl.raised)
    /\ tl.lineups # <<>> => tl_count >= 5

\* C28: the declared starters of the tracked team seed the on-court set of
\* the tracked team's own side: when the tracked team is the visiting side
\* and its starters are seeded, they are in the 'V' set and the 'H' set
\* starts empty.
C28_StartersSeedOwnSide ==
  (/\ tl_count = 0
   /\ TrackedSide(tl_players) = Lit.V
   /\ CuStarterCount(tl_players) \in 1..5)
  => (tl.V = CuStarters(tl_players) /\ tl.H = {})

\* C23: for every player with at least one game, Best Matchup is an opponent
\* group of the highest per-opponent PPG and Worst Matchup one of the lowest,
\* also when the player scored 0 against every opponent.
C23_MatchupsAreExtremeGroups ==
  mc_pc = "calculated" =>
    \A i \in 1..Len(profiles) :
       LET m == profiles[i].metrics
           splits == m.OpponentStats
       IN  /\ DictHas(splits, m.BestMatchup)
           /\ DictHas(splits, m.WorstMatchup)
           /\ \A o \in 1..Len(splits) :
                 /\ RatLeq(splits[o].v.PPG, DictGet(splits, m.BestMatchup).PPG)
                 /\ RatLeq(DictGet(splits, m.WorstMatchup).PPG, splits[o].v.PPG)

\* the play section of the document
EventSection ==
  IF ep_root.plays # <<>> THEN ep_root.plays[1] ELSE ep_root.playbyplay[1]

\* the document groups events by period
EventsGrouped ==
  \E k \in 1..Len(EventSection.periods) : EventSection.periods[k].plays # <<>>

\* the number of plays in the groups before the k-th
RECURSIVE PlaysBefore(_)
PlaysBefore(k) ==
  IF k <= 1 THEN 0 ELSE PlaysBefore(k - 1) + Len(EventSection.periods[k - 1].plays)

\* the event was parsed from this <play> element: same clock, side and action
EventOf(event, pe) ==
  /\ event.time = Or2(pe.time, pe.clock)
  /\ event.team = Or2(pe.vh, pe.team)
  /\ event.action = pe.action

\* C25: the events returned by _extract_plays carry the indices 0..n-1 in
\* document order; when the document groups events by period, the events are
\* those of the groups in order and each carries the label of its enclosing
\* group (number, else prd); when it does not, the events are the plays of
\* the section in order and each carries the default label '1'.
C25_EventsIndexedInOrder ==
  (ep_out # <<>> /\ ep_out # "raised") =>
    LET events == ep_out[1]
        periods == EventSection.periods
    IN  /\ \A i \in 1..Len(events) : events[i].id = i - 1
        /\ IF EventsGrouped
           THEN /\ Len(events) = PlaysBefore(Len(periods) + 1)
                /\ \A k \in 1..Len(periods) : \A j \in 1..Len(periods[k].plays) :
                      LET event == events[PlaysBefore(k) + j]
                      IN  /\ EventOf(event, periods[k].plays[j])
                          /\ periods[k].number # NoneVal => event.period = periods[k].number
                          /\ (periods[k].number = NoneVal /\ periods[k].prd # NoneVal)
                                => event.period = periods[k].prd
           ELSE /\ Len(events) = Len(EventSection.plays)
                /\ \A i \in 1..Len(events) :
                      /\ EventOf(events[i], EventSection.plays[i])
                      /\ events[i].period = Lit.One

\* two groups with different labels: the events of the second group follow
\* those of the first and carry its label
C25_TwoGroupsInOrder ==
  /\ ep_out # <<>> /\ ep_out # "raised"
  /\ Len(EventSection.periods) = 2
  /\ Len(ep_out[1]) = 3
  /\ ep_out[1][1].period = Txt.s2 /\ ep_out[1][3].period = Txt.s4
  /\ ep_out[1][3].id = 2

\* C26: the acting player stored on every parsed event is normalized as the
\* player names are: for every play with a player attribute the event's
\* player is _normalize_name of the raw value.
C26_EventPlayerNormalized ==
  (ep_out # <<>> /\ ep_out # "raised") =>
    \A i \in 1..Len(ep_out[1]) :
       LET raw == Or2(PlaysToParse(ep_root)[i].elem.checkname,
                      PlaysToParse(ep_root)[i].elem.player)
       IN  raw # NoneVal => ep_out[1][i].player = _normalize_name(raw)

\* the document of the batch file the Game was parsed from
RootOf(game) ==
  batch[CHOOSE i \in 1..Len(batch) : batch[i].name = game.filename].root

\* no team of the document is named as the tracked program is
NoTrackedName(root) ==
  \A t \in 1..Len(root.teams) :
     ~IsTrackedName(Or3(root.teams[t].name, root.teams[t].teamname, Lit.Unknown))

\* C27: when no team name of the document matches a tracked-program
\* spelling, the first team in document order is the tracked team and the
\* second, if any, the opponent; with a single team the opponent is
\* 'Unknown' and opp_score is 0.
C27_FirstTeamIsTracked ==
  \A g \in 1..Len(ld.games) :
     LET game == ld.games[g]
         root == RootOf(game)
         first == root.teams[1]
     IN  (root.teams # <<>> /\ NoTrackedName(root)) =>
           /\ game.cu_score = IntOr0(first.linescore[1].score)
           /\ game.home_away = IF first.vh = Lit.V THEN Lit.Away ELSE Lit.Home
           /\ \A p \in 1..Len(game.players) :
                 game.players[p].v.is_cu <=> game.players[p].v.team = first.vh
           /\ IF Len(root.teams) > 1
              THEN /\ game.opponent = root.teams[2].name
                   /\ game.opp_score = IntOr0(root.teams[2].linescore[1].score)
              ELSE game.opponent = Lit.Unknown /\ game.opp_score = 0

\* a batch of a single-team document and of a two-team one, none tracked
C27_SingleAndPairUntracked ==
  /\ ld.pc = "done" /\ Len(ld.games) = 2
  /\ RootOf(ld.games[1]) = DocOneTeam /\ ld.games[1].opponent = Lit.Unknown
  /\ RootOf(ld.games[2]) = DocNoneTracked /\ ld.games[2].opponent = Txt.Iowa

\* the name Game.players keys this <player> record by
RecordName(pe) == _normalize_name(Or2(pe.name, pe.player))

\* exactly this team of the document is named as the tracked program is
OnlyTracked(root, t) ==
  \A u \in 1..Len(root.teams) : IsTrackedName(root.teams[u].name) <=> u = t

\* C29: every player record of the tracked team appears in Game.players
\* flagged as tracked, under the tracked team's identifier: neither a player
\* of the other team with the same normalized name nor a second record of
\* that name replaces or removes it.
C29_TrackedPlayersKept ==
  \A g \in 1..Len(ld.games) :
     LET game == ld.games[g]
         root == RootOf(game)
     IN  \A t \in 1..Len(root.teams) :
            (OnlyTracked(root, t) /\ root.teams[t].vh # NoneVal) =>
               \A p \in 1..Len(root.teams[t].players) :
                  LET pe == root.teams[t].players[p]
                  IN  ~PlayerSkipped(pe) =>
                        /\ DictHas(game.players, RecordName(pe))
                        /\ DictGet(game.players, RecordName(pe)).is_cu
                        /\ DictGet(game.players, RecordName(pe)).team = root.teams[t].vh

\* no other <player> record of the document has this record's name
NameIsUnique(root, t, p) ==
  \A u \in 1..Len(root.teams) : \A q \in 1..Len(root.teams[u].players) :
     (<<u, q>> # <<t, p>> /\ ~PlayerSkipped(root.teams[u].players[q]))
        => RecordName(root.teams[u].players[q]) # RecordName(root.teams[t].players[p])

\* C30: player extraction uses the same identifier aliases as team
\* extraction: for every team recorded in Game.teams, whether vh, id or code
\* supplied its identifier, its player records are in Game.players with that
\* identifier.
C30_PlayersOfEveryRecordedTeam ==
  \A g \in 1..Len(ld.games) :
     LET game == ld.games[g]
         root == RootOf(game)
     IN  \A t \in 1..Len(root.teams) :
            DictHas(game.teams, TeamId(root.teams[t])) =>
               \A p \in 1..Len(root.teams[t].players) :
                  LET pe == root.teams[t].players[p]
                  IN  (~PlayerSkipped(pe) /\ NameIsUnique(root, t, p)) =>
                        /\ DictHas(game.players, RecordName(pe))
                        /\ DictGet(game.players, RecordName(pe)).team
                             = TeamId(root.teams[t])

(***************************************************************************)
(* Specifications: one per component, the other components idle            *)
(***************************************************************************)
OthersIdle == AnalysisIdle /\ ConsistencyIdle /\ PlaysIdle

Init ==
  /\ LoaderInit /\ LineupIdle /\ RunsIdle /\ SwingsIdle /\ MetricsIdle /\ NamesIdle
  /\ OthersIdle

Next == LoaderNext

Spec == Init /\ [][Next]_vars

InitLineups ==
  /\ LineupInit /\ LoaderIdle /\ RunsIdle /\ SwingsIdle /\ MetricsIdle /\ NamesIdle
  /\ OthersIdle

SpecLineups == InitLineups /\ [][LineupNext]_vars

InitRuns ==
  /\ RunsInit /\ LoaderIdle /\ LineupIdle /\ SwingsIdle /\ MetricsIdle /\ NamesIdle
  /\ OthersIdle

SpecRuns == InitRuns /\ [][RunsNext]_vars

InitSwings ==
  /\ SwingsInit /\ LoaderIdle /\ LineupIdle /\ RunsIdle /\ MetricsIdle /\ NamesIdle
  /\ OthersIdle

SpecSwings == InitSwings /\ [][SwingsNext]_vars

InitMetrics ==
  /\ MetricsInit /\ LoaderIdle /\ LineupIdle /\ RunsIdle /\ SwingsIdle /\ NamesIdle
  /\ OthersIdle

SpecMetrics == InitMetrics /\ [][MetricsNext]_vars

InitNames ==
  /\ NamesInit /\ LoaderIdle /\ LineupIdle /\ RunsIdle /\ SwingsIdle /\ MetricsIdle
  /\ OthersIdle

SpecNames == InitNames /\ [][NamesNext]_vars

InitAnalysis ==
  /\ AnalysisInit /\ LoaderIdle /\ LineupIdle /\ RunsIdle /\ SwingsIdle /\ MetricsIdle
  /\ NamesIdle /\ ConsistencyIdle /\ PlaysIdle

SpecAnalysis == InitAnalysis /\ [][AnalysisNext]_vars

InitConsistency ==
  /\ ConsistencyInit /\ LoaderIdle /\ LineupIdle /\ RunsIdle /\ SwingsIdle
  /\ MetricsIdle /\ NamesIdle /\ AnalysisIdle /\ PlaysIdle

SpecConsistency == InitConsistency /\ [][ConsistencyNext]_vars

InitPlays ==
  /\ PlaysInit /\ LoaderIdle /\ LineupIdle /\ RunsIdle /\ SwingsIdle /\ MetricsIdle
  /\ NamesIdle /\ AnalysisIdle /\ ConsistencyIdle

SpecPlays == InitPlays /\ [][PlaysNext]_vars

=============================================================================
